---- MODULE Spec2Model ----
(***************************************************************************)
(* Verification model of openapi-studio (packages core): the openapi       *)
(* store (document load, reference resolution, example synthesis, schema   *)
(* display, security scheme resolution), the config store (guarded load)   *)
(* and the EndpointTester component (sendRequest, request history).        *)
(*                                                                         *)
(* JavaScript values are modelled as tagged records so that values of      *)
(* different JavaScript types can be compared: Null, Str("x"), Num("0"),   *)
(* Bool("false"), Arr(<<...>>), Obj(<<[k |-> key, v |-> value], ...>>).    *)
(* An object keeps its keys in insertion order, as JavaScript does.        *)
(***************************************************************************)
EXTENDS Integers, Sequences, FiniteSets, TLC

VARIABLES
    openApiSpec,        \* openapi store: ref<Document | null>
    loading,            \* openapi store: ref(true)
    error,              \* openapi store: ref<string | null>
    operation,          \* the operation handed to getAvailableSecuritySchemes
    available,          \* what getAvailableSecuritySchemes returned
    pointer,            \* the $ref handed to resolveReference, split at "/"
    referent,           \* what resolveReference returned
    parameter,          \* what resolveParameter returned
    listed,             \* the values the `endpoints` computed has been read as
    copied,             \* what copyCurlToClipboard last wrote to the clipboard
    pathArg,            \* the argument validatePath is called with
    validated,          \* what validatePath returned or threw
    setupArgs,          \* the arguments OpenApiStudioModule.setup is called with
    nestApp,            \* the NestJS application: its global prefix, static assets and routes
    requestBodySchema,  \* EndpointTester: the schema (node id) of the request body
    exampleRequestBody, \* what generateExampleFromSchema returned for it
    requestBodySchemaDisplay, \* what formatSchemaForDisplay returned for it
    isLoadingOpenApi,   \* config store: ref(false), the single-flight flag
    serviceHosts,       \* config store: ref<ServiceHost[]>([])
    selectedServiceHost, \* config store: ref<ServiceHost | null>(null)
    localStorage,       \* the browser's localStorage, by key
    envOpenApiSpecUrl,  \* import.meta.env.VITE_OPENAPI_SPEC_URL
    loads,              \* the calls of loadSpec, in call order
    selectedPath,       \* endpoint store: ref<string | null>, split at its placeholders
    selectedMethod,     \* endpoint store: ref<string | null>
    selectedAuthScheme, \* endpoint store: ref<string | null>
    requestHistory,     \* endpoint store: ref<RequestHistoryItem[]>([])
    endpointFormState,  \* endpoint store: ref<Map<string, EndpointFormState>>
    requestQuery,       \* EndpointTester: ref<Record<string, any>>({})
    requestUrlParams,   \* EndpointTester: ref<Record<string, any>>({})
    requestBody,        \* EndpointTester: ref<string>('')
    response,           \* EndpointTester: ref<any>(null)
    responseError,      \* EndpointTester: ref<string | null>(null)
    sendingRequest,     \* EndpointTester: ref(false)
    authCredentials,    \* EndpointTester: ref<Record<string, any>>({})
    menuAuthCredentials, \* SecuritySchemeMenu: its own authCredentials ref
    clerk,              \* useAuth(): "unavailable", "signedOut" or "signedIn"
    call,               \* the call of sendRequest in progress, and where it is
    orphan,             \* a call in progress whose EndpointTester was unmounted
    calls,              \* how many times sendRequest has been called
    fetched             \* the network calls sendRequest has made, in order

storeVars == <<openApiSpec, loading, error>>
configVars == <<isLoadingOpenApi, serviceHosts, selectedServiceHost, localStorage,
                envOpenApiSpecUrl, loads>>
serverVars == <<pathArg, validated, setupArgs, nestApp>>
resolverVars == <<pointer, referent, parameter, listed, copied, serverVars, serverVars>>
securityVars == <<operation, available, resolverVars>>
schemaVars == <<requestBodySchema, exampleRequestBody, requestBodySchemaDisplay>>
endpointVars == <<selectedPath, selectedMethod, selectedAuthScheme, requestHistory,
                  endpointFormState>>
formVars == <<requestQuery, requestUrlParams, requestBody>>
testerVars == <<endpointVars, formVars, response, responseError, sendingRequest,
                authCredentials, menuAuthCredentials, clerk, orphan, call, calls, fetched>>
vars == <<storeVars, securityVars, schemaVars, configVars, testerVars>>

\* ---------------------------------------------------------------- values
Null == [t |-> "null"]
Undefined == [t |-> "undefined"]
Str(s) == [t |-> "str", v |-> s]
Num(s) == [t |-> "num", v |-> s]
Bool(s) == [t |-> "bool", v |-> s]
Arr(s) == [t |-> "arr", v |-> s]
Obj(s) == [t |-> "obj", v |-> s]

\* the value before an operation has run
NotCalled == [called |-> FALSE, v |-> <<>>]
Returned(v) == [called |-> TRUE, v |-> v]

\* no server has been set up and no path validated: the application has no
\* global prefix, no static assets and no routes
NoApp == [globalPrefix |-> <<>>, indexHtml |-> FALSE, staticAssets |-> <<>>, routes |-> <<>>]
NoSetup == [path |-> <<>>, options |-> <<>>]
IdleServer ==
    /\ pathArg = Undefined
    /\ validated = NotCalled
    /\ setupArgs = NoSetup
    /\ nestApp = NoApp

\* no component has asked the store to resolve or list anything
IdleResolver ==
    /\ pointer = <<>>
    /\ referent = NotCalled
    /\ parameter = NotCalled
    /\ listed = <<>>
    /\ copied = NotCalled
    /\ IdleServer

SeqToSet(s) == {s[i] : i \in DOMAIN s}

\* ------------------------------------------------------ security schemes
\* An optional `security` key: absent, or a list of requirement objects; a
\* requirement object is modelled by its keys in insertion order.
NoSecurity == [present |-> FALSE, list |-> <<>>]
Security(l) == [present |-> TRUE, list |-> l]

ApiKeyScheme(in, name) ==
    [type |-> "apiKey", in |-> in, name |-> name, scheme |-> "", isRef |-> FALSE]
HttpScheme(scheme) ==
    [type |-> "http", in |-> "", name |-> "", scheme |-> scheme, isRef |-> FALSE]
TokenScheme(type) ==
    [type |-> type, in |-> "", name |-> "", scheme |-> "", isRef |-> FALSE]
RefScheme ==
    [type |-> "", in |-> "", name |-> "", scheme |-> "", isRef |-> TRUE]

\* components.securitySchemes: absent, or entries in insertion order
NoSchemes == [present |-> FALSE, list |-> <<>>]
Schemes(l) == [present |-> TRUE, list |-> l]

\* openapi.ts securitySchemes (computed): the entries that are scheme objects
RECURSIVE SelectSchemes(_)
SelectSchemes(l) ==
    IF l = <<>> THEN <<>>
    ELSE (IF ~Head(l).scheme.isRef THEN <<Head(l)>> ELSE <<>>) \o SelectSchemes(Tail(l))

securitySchemes ==
    IF openApiSpec = Null \/ ~openApiSpec.securitySchemes.present
    THEN <<>>
    ELSE SelectSchemes(openApiSpec.securitySchemes.list)

\* securitySchemes.value.find(s => s.name === schemeName): <<entry>> or <<>>
RECURSIVE FindScheme(_, _)
FindScheme(l, schemeName) ==
    IF l = <<>> THEN <<>>
    ELSE IF Head(l).name = schemeName THEN <<Head(l)>>
    ELSE FindScheme(Tail(l), schemeName)

\* the loop body shared by both branches: for (schemeName in requirement)
\* if (!schemeNames.has(schemeName)) { add; find; push }
\* acc = [names |-> schemeNames, out |-> available]
RECURSIVE CollectRequirement(_, _)
CollectRequirement(req, acc) ==
    IF req = <<>> THEN acc
    ELSE CollectRequirement(Tail(req),
            IF Head(req) \in acc.names THEN acc
            ELSE [names |-> acc.names \cup {Head(req)},
                  out |-> acc.out \o FindScheme(securitySchemes, Head(req))])

RECURSIVE CollectSecurity(_, _)
CollectSecurity(list, acc) ==
    IF list = <<>> THEN acc
    ELSE CollectSecurity(Tail(list), CollectRequirement(Head(list), acc))

\* a variant that goes on to the document-level list after the operation's
getAvailableSecuritySchemes_GlobalAlso(op) ==
    IF op = Null \/ openApiSpec = Null \/ ~openApiSpec.securitySchemes.present
    THEN <<>>
    ELSE CollectSecurity(
            IF openApiSpec.security.present THEN openApiSpec.security.list ELSE <<>>,
            CollectSecurity(IF op.security.present THEN op.security.list ELSE <<>>,
                            [names |-> {}, out |-> <<>>])).out
getAvailableSecuritySchemes(op) ==
    IF op = Null \/ openApiSpec = Null \/ ~openApiSpec.securitySchemes.present
    THEN <<>>
    ELSE IF op.security.present /\ Len(op.security.list) > 0
    THEN CollectSecurity(op.security.list, [names |-> {}, out |-> <<>>]).out
    ELSE IF openApiSpec.security.present /\ Len(openApiSpec.security.list) > 0
    THEN CollectSecurity(openApiSpec.security.list, [names |-> {}, out |-> <<>>]).out
    ELSE <<>>

\* ------------------------------------------------------------- documents
\* A document (OpenAPIV3.Document) as far as the engine reads it:
\*   title            info.title
\*   paths            entries [path, item] in insertion order
\*   security         the optional document-level security list
\*   securitySchemes  components.securitySchemes
\*   schemas          components.schemas: entries [k |-> name, v |-> node id]
\*   nodes            the schema objects, children referenced by index
\*   parameters       components.parameters: entries [k |-> name, v |-> object]
\*   requestBodies    components.requestBodies, likewise (absent when empty)
Document(paths, security, schemes, schemas, nodes) ==
    [title |-> "", paths |-> paths, security |-> security, securitySchemes |-> schemes,
     schemas |-> schemas, nodes |-> nodes, parameters |-> <<>>, requestBodies |-> <<>>]

WithComponents(doc, parameters, requestBodies) ==
    [doc EXCEPT !.parameters = parameters, !.requestBodies = requestBodies]

\* an operation object (OpenAPIV3.OperationObject)
Operation(security, parameters, body) ==
    [security |-> security, parameters |-> parameters, requestBody |-> body]

\* ---------------------------------------------------------------- schemas
\* A schema object (OpenAPIV3.SchemaObject | ReferenceObject).  An absent key
\* is "" for a string-valued key, Undefined for a JSON-valued key, 0 for
\* `items` and `minItems`, and present |-> FALSE for a list-valued key.
\* `ref` is the $ref pointer split at "/": <<"#", "components", "schemas", "A">>.
NoList == [present |-> FALSE, list |-> <<>>]
List(l) == [present |-> TRUE, list |-> l]

Schema ==
    [ref |-> <<>>, type |-> "", example |-> Undefined, enum |-> NoList,
     format |-> "", default |-> Undefined, items |-> 0, minItems |-> 0,
     properties |-> NoList, required |-> NoList,
     anyOf |-> NoList, oneOf |-> NoList, allOf |-> NoList,
     description |-> "", pattern |-> "", minLength |-> Undefined,
     maxLength |-> Undefined, minimum |-> Undefined, maximum |-> Undefined]

RefTo(name) == [Schema EXCEPT !.ref = <<"#", "components", "schemas", name>>]
Typed(type) == [Schema EXCEPT !.type = type]
Prop(k, v) == [k |-> k, v |-> v]

\* what an Error thrown out of a call is modelled by
Thrown(message) == [t |-> "thrown", v |-> message]
IsThrown(x) == x.t = "thrown"

\* V8 ends a recursion that never returns with this RangeError once the call
\* stack is MaxCallStack frames deep
MaxCallStack == 12
RangeError == Thrown("Maximum call stack size exceeded")

\* --------------------------------------------------- reference resolution
\* The document seen as nested mappings, for resolveReference's walk:
\*   [t |-> "doc"], [t |-> "components"], [t |-> "schemas"],
\*   [t |-> "schema", id |-> n], [t |-> "properties", id |-> n],
\*   [t |-> "parameters"], [t |-> "parameter", of |-> object],
\*   [t |-> "requestBodies"], [t |-> "requestBody", of |-> object],
\*   [t |-> "object"] (a mapping the model does not look into), Str(..),
\*   [t |-> "function"] (a method inherited from Object.prototype).
LookupSchema(spec, name) ==
    LET hits == {i \in DOMAIN spec.schemas : spec.schemas[i].k = name}
    IN IF hits = {} THEN 0 ELSE spec.schemas[CHOOSE i \in hits : TRUE].v

LookupProperty(schema, key) ==
    LET hits == {i \in DOMAIN schema.properties.list : schema.properties.list[i].k = key}
    IN IF hits = {} THEN 0 ELSE schema.properties.list[CHOOSE i \in hits : TRUE].v

\* refValue && typeof refValue === 'object'
IsObject(view) ==
    view.t \in {"doc", "components", "schemas", "schema", "properties", "object",
                "parameters", "parameter", "requestBodies", "requestBody"}

\* obj[key] on entries kept in insertion order: 0 when the key is absent
Entry(entries, key) ==
    LET hits == {i \in DOMAIN entries : entries[i].k = key}
    IN IF hits = {} THEN 0 ELSE CHOOSE i \in hits : TRUE

\* the keys of the document's own mappings
HasOwnKey(view, part, spec) ==
    CASE view.t = "doc" -> part \in {"paths", "components"} \/ (part = "security" /\ spec.security.present)
      [] view.t = "components" ->
            \/ part = "schemas"
            \/ part = "securitySchemes" /\ spec.securitySchemes.present
            \/ part = "parameters" /\ spec.parameters # <<>>
            \/ part = "requestBodies" /\ spec.requestBodies # <<>>
      [] view.t = "parameters" -> Entry(spec.parameters, part) # 0
      [] view.t = "parameter" ->
            \/ part = "$ref" /\ view.of.ref # <<>>
            \/ part \in {"name", "in"} /\ view.of.name # ""
      [] view.t = "requestBodies" -> Entry(spec.requestBodies, part) # 0
      [] view.t = "requestBody" ->
            \/ part = "$ref" /\ view.of.ref # <<>>
            \/ part = "content" /\ view.of.ref = <<>>
      [] view.t = "schemas" -> LookupSchema(spec, part) # 0
      [] view.t = "schema" ->
            LET schema == spec.nodes[view.id]
            IN \/ part = "$ref" /\ schema.ref # <<>>
               \/ part = "type" /\ schema.type # ""
               \/ part = "properties" /\ schema.properties.present
               \/ part = "items" /\ schema.items # 0
               \/ part = "required" /\ schema.required.present
               \/ part = "allOf" /\ schema.allOf.present
               \/ part = "anyOf" /\ schema.anyOf.present
               \/ part = "oneOf" /\ schema.oneOf.present
      [] view.t = "properties" -> LookupProperty(spec.nodes[view.id], part) # 0
      [] OTHER -> FALSE

\* what every object inherits from Object.prototype (some of it)
ObjectPrototype == {"constructor", "toString", "hasOwnProperty"}

\* part in refValue: own keys, and those of the prototype chain
HasKey(view, part, spec) == HasOwnKey(view, part, spec) \/ part \in ObjectPrototype

\* refValue[part], for a part that HasKey
GetKey(view, part, spec) ==
    IF ~HasOwnKey(view, part, spec) THEN [t |-> "function"] ELSE
    CASE view.t = "doc" /\ part = "components" -> [t |-> "components"]
      [] view.t = "components" /\ part = "schemas" -> [t |-> "schemas"]
      [] view.t = "components" /\ part = "parameters" -> [t |-> "parameters"]
      [] view.t = "components" /\ part = "requestBodies" -> [t |-> "requestBodies"]
      [] view.t = "parameters" ->
            [t |-> "parameter", of |-> spec.parameters[Entry(spec.parameters, part)].v]
      [] view.t = "parameter" /\ part = "name" -> Str(view.of.name)
      [] view.t = "parameter" /\ part = "in" -> Str(view.of.in)
      [] view.t \in {"parameter", "requestBody"} /\ part = "$ref" -> Str(view.of.ref)
      [] view.t = "requestBodies" ->
            [t |-> "requestBody", of |-> spec.requestBodies[Entry(spec.requestBodies, part)].v]
      [] view.t = "schemas" -> [t |-> "schema", id |-> LookupSchema(spec, part)]
      [] view.t = "schema" /\ part = "properties" -> [t |-> "properties", id |-> view.id]
      [] view.t = "schema" /\ part = "items" -> [t |-> "schema", id |-> spec.nodes[view.id].items]
      [] view.t = "schema" /\ part = "type" -> Str(spec.nodes[view.id].type)
      [] view.t = "properties" -> [t |-> "schema", id |-> LookupProperty(spec.nodes[view.id], part)]
      [] OTHER -> [t |-> "object"]

RECURSIVE Walk(_, _, _)
Walk(refValue, refPath, spec) ==
    IF refPath = <<>> THEN refValue
    ELSE IF IsObject(refValue) /\ HasKey(refValue, Head(refPath), spec)
    THEN Walk(GetKey(refValue, Head(refPath), spec), Tail(refPath), spec)
    ELSE Null

\* ref.replace('#/', '').split('/'): "#/a/b" is <<"#", "a", "b">>, and a
\* lone "#" holds no "#/" to replace
RefPath(ref) == IF Len(ref) > 1 /\ Head(ref) = "#" THEN Tail(ref) ELSE ref

resolveReference(ref, spec) == Walk([t |-> "doc"], RefPath(ref), spec)

\* the resolved value read as a schema object: the schema object itself, or,
\* for any other mapping (which has none of the keys a schema is read by),
\* the schema without keys
AsSchema(refValue, spec) ==
    IF refValue.t = "schema" THEN spec.nodes[refValue.id]
    ELSE IF IsObject(refValue) THEN Schema
    ELSE Undefined

\* schema.items, a member of allOf, a property's schema: undefined when absent
Node(spec, id) == IF id = 0 THEN Undefined ELSE spec.nodes[id]

\* resolveParameter(param): the parameter object, or null
resolveParameter(param) ==
    IF param = Null THEN Null
    ELSE IF param.ref # <<>>
    THEN IF openApiSpec = Null THEN Null
         ELSE LET resolved == resolveReference(param.ref, openApiSpec)
              IN IF /\ IsObject(resolved)
                    /\ HasKey(resolved, "name", openApiSpec)
                    /\ HasKey(resolved, "in", openApiSpec)
                 THEN resolved.of
                 ELSE Null
    ELSE IF param.name # "" /\ param.in # "" THEN param
    ELSE Null

\* getRequestBodySchema(operation): the node id of
\* content['application/json'].schema, 0 for null
getRequestBodySchema(op) ==
    IF op = Null \/ openApiSpec = Null THEN 0
    ELSE IF op.requestBody = Null THEN 0
    ELSE LET inline == [t |-> "requestBody", of |-> op.requestBody]
             refValue == resolveReference(op.requestBody.ref, openApiSpec)
         IN IF op.requestBody.ref # <<>> /\ ~IsObject(refValue) THEN 0
            ELSE LET body == IF op.requestBody.ref # <<>> THEN refValue ELSE inline
                 IN IF ~HasKey(body, "content", openApiSpec) THEN 0
                    ELSE body.of.schema

\* !schema || typeof schema !== 'object'
NoSchema(schema) == schema = Undefined \/ schema = Null

\* ref.split('/').pop()
RefName(ref) == ref[Len(ref)]

\* ------------------------------------------------------ example synthesis
\* a merge in which the first value of a key stays
AssignKey_KeepFirst(merged, entry) ==
    IF \E i \in DOMAIN merged : merged[i].k = entry.k
    THEN merged
    ELSE Append(merged, entry)
\* Object.assign(merged, example): a key already in merged keeps its place
\* and takes the new value, a new key is appended
AssignKey(merged, entry) ==
    IF \E i \in DOMAIN merged : merged[i].k = entry.k
    THEN [i \in DOMAIN merged |-> IF merged[i].k = entry.k THEN entry ELSE merged[i]]
    ELSE Append(merged, entry)

RECURSIVE Assign(_, _)
Assign(merged, example) ==
    IF example = <<>> THEN merged
    ELSE Assign(AssignKey(merged, Head(example)), Tail(example))

\* Array(n).fill(x)
Fill(n, x) == [i \in 1..n |-> x]

StringFormats == {"date", "date-time", "email", "uri", "uuid"}
FormatExample(format) ==
    CASE format = "date" -> Str("2024-01-01")
      [] format = "date-time" -> Str("2024-01-01T00:00:00Z")
      [] format = "email" -> Str("example@example.com")
      [] format = "uri" -> Str("https://example.com")
      [] format = "uuid" -> Str("123e4567-e89b-12d3-a456-426614174000")

\* schemaObj.type || (anyOf ? 'anyOf' : oneOf ? 'oneOf' : allOf ? 'allOf' : 'object')
EffectiveType(schema) ==
    IF schema.type # "" THEN schema.type
    ELSE IF schema.anyOf.present THEN "anyOf"
    ELSE IF schema.oneOf.present THEN "oneOf"
    ELSE IF schema.allOf.present THEN "allOf"
    ELSE "object"

\* a variant that never reads `default`
DefaultOr_Ignored(schema, fallback) == fallback

\* ('default' in schemaObj && schemaObj.default !== undefined) ? default : fallback
DefaultOr(schema, fallback) ==
    IF schema.default # Undefined THEN schema.default ELSE fallback

\* the object case without its `else if (!('required' in schema))` arm: what
\* the claims about `required` are tested against
IncludesProperty_RequiredOnly(schema, key) ==
    schema.required.present /\ key \in SeqToSet(schema.required.list)

\* the object case's test on one property key
IncludesProperty(schema, key) ==
    \/ schema.required.present /\ key \in SeqToSet(schema.required.list)
    \/ ~schema.required.present

\* generateExampleFromSchema(schema, spec), called `depth` frames deep.  A
\* call that throws ends every caller (there is no try in the function).
RECURSIVE generateExampleFromSchema(_, _, _)
RECURSIVE GenerateProperties(_, _, _, _, _)
RECURSIVE GenerateAllOf(_, _, _, _)

\* for (const [key, propSchema] of Object.entries(schema.properties))
GenerateProperties(entries, schema, spec, depth, obj) ==
    IF entries = <<>> THEN Obj(obj)
    ELSE IF IncludesProperty(schema, Head(entries).k)
    THEN LET example == generateExampleFromSchema(Node(spec, Head(entries).v), spec, depth + 1)
         IN IF IsThrown(example) THEN example
            ELSE GenerateProperties(Tail(entries), schema, spec, depth,
                                    Append(obj, Prop(Head(entries).k, example)))
    ELSE GenerateProperties(Tail(entries), schema, spec, depth, obj)

\* for (const subSchema of schema.allOf)
GenerateAllOf(members, spec, depth, merged) ==
    IF members = <<>> THEN Obj(merged)
    ELSE LET example == generateExampleFromSchema(Node(spec, Head(members)), spec, depth + 1)
         IN IF IsThrown(example) THEN example
            ELSE GenerateAllOf(Tail(members), spec, depth,
                               IF example.t = "obj" THEN Assign(merged, example.v) ELSE merged)

generateExampleFromSchema(schema, spec, depth) ==
    IF depth > MaxCallStack THEN RangeError
    ELSE IF NoSchema(schema) THEN Null
    ELSE IF schema.ref # <<>>
    THEN LET refValue == resolveReference(schema.ref, spec)
         IN IF ~IsObject(refValue) THEN Null
            ELSE generateExampleFromSchema(AsSchema(refValue, spec), spec, depth + 1)
    ELSE IF schema.example # Undefined THEN schema.example
    ELSE IF schema.enum.present /\ Len(schema.enum.list) > 0 THEN schema.enum.list[1]
    ELSE LET type == EffectiveType(schema)
         IN CASE type = "string" ->
                    IF schema.format \in StringFormats THEN FormatExample(schema.format)
                    ELSE DefaultOr(schema, Str("string"))
              [] type \in {"number", "integer"} -> DefaultOr(schema, Num("0"))
              [] type = "boolean" -> DefaultOr(schema, Bool("false"))
              [] type = "array" ->
                    IF schema.items # 0
                    THEN LET itemExample == generateExampleFromSchema(Node(spec, schema.items), spec, depth + 1)
                         IN IF IsThrown(itemExample) THEN itemExample
                            ELSE IF schema.minItems > 0 THEN Arr(Fill(schema.minItems, itemExample))
                            ELSE Arr(<<itemExample>>)
                    ELSE Arr(<<>>)
              [] type = "object" ->
                    IF schema.properties.present
                    THEN GenerateProperties(schema.properties.list, schema, spec, depth, <<>>)
                    ELSE Obj(<<>>)
              [] type = "anyOf" ->
                    IF schema.anyOf.present /\ Len(schema.anyOf.list) > 0
                    THEN generateExampleFromSchema(Node(spec, schema.anyOf.list[1]), spec, depth + 1)
                    ELSE Obj(<<>>)
              [] type = "oneOf" ->
                    IF schema.oneOf.present /\ Len(schema.oneOf.list) > 0
                    THEN generateExampleFromSchema(Node(spec, schema.oneOf.list[1]), spec, depth + 1)
                    ELSE Obj(<<>>)
              [] type = "allOf" ->
                    IF schema.allOf.present
                    THEN GenerateAllOf(schema.allOf.list, spec, depth, <<>>)
                    ELSE Obj(<<>>)
              [] OTHER -> Null

\* --------------------------------------------------------- schema display
\* One line of formatSchemaForDisplay's output, by the template that wrote it:
\*   "circular"     `${indent}${propertyName || ''} -> ${name} (!) circular`
\*   "invalid"      `${indent}${propertyName || ''} -> ${name} (invalid)`
\*   "ref"          `${indent}${propertyName} -> ${refName}` / `${indent}-> ${refName}`
\*   "property"     `${indent}${propertyName}${isRequired ? '*' : ''}: ${typeStr}  // ${description}`
\*   "open" "close" `${indent}{` and `${indent}}`
\*   "items"        `${indent}  items:`
\*   "allOf" "anyOf" "oneOf"  `${indent}  allOf[${i}]:`
\*   "constraints"  `${indent}    (${constraints.join(', ')})`
\* indent counts the two-space units in front of the text.
NoName == ""
Line(indent, kind) ==
    [indent |-> indent, kind |-> kind, name |-> NoName, target |-> "",
     type |-> <<>>, required |-> FALSE, description |-> "", index |-> 0,
     constraints |-> <<>>]

\* getTypeString(s): the text as the sequence of its pieces
RECURSIVE getTypeString(_, _)
getTypeString(s, spec) ==
    IF s.type = "array" /\ s.items # 0
    THEN <<"Array<">> \o getTypeString(spec.nodes[s.items], spec) \o <<">">>
    ELSE IF s.type # ""
    THEN <<s.type>>
         \o (IF s.format # "" THEN <<"(", s.format, ")">> ELSE <<>>)
         \o (IF s.enum.present
             THEN [i \in 1..(2 * Len(s.enum.list)) |->
                       IF i % 2 = 1 THEN "|" ELSE s.enum.list[i \div 2].v]
             ELSE <<>>)
    ELSE IF s.allOf.present THEN <<"allOf">>
    ELSE IF s.anyOf.present THEN <<"anyOf">>
    ELSE IF s.oneOf.present THEN <<"oneOf">>
    ELSE <<"object">>

\* the `constraints` array of a property
Constraints(schema) ==
    (IF schema.pattern # "" THEN <<"pattern">> ELSE <<>>)
    \o (IF schema.default # Undefined THEN <<"default">> ELSE <<>>)
    \o (IF schema.minLength # Undefined THEN <<"minLength">> ELSE <<>>)
    \o (IF schema.maxLength # Undefined THEN <<"maxLength">> ELSE <<>>)
    \o (IF schema.minimum # Undefined THEN <<"min">> ELSE <<>>)
    \o (IF schema.maximum # Undefined THEN <<"max">> ELSE <<>>)

\* A call's outcome: the text it returned, the shared `visited` set as the
\* call left it, and whether it threw.
Output(out, visited) == [out |-> out, visited |-> visited, thrown |-> FALSE]
Overflow(visited) == [out |-> <<>>, visited |-> visited, thrown |-> TRUE]

\* a nested call: the label line written before it and its arguments
Step(label, id, level, propertyName) ==
    [label |-> label, id |-> id, level |-> level, propertyName |-> propertyName]

PropertySteps(schema, level) ==
    [i \in DOMAIN schema.properties.list |->
        Step(<<>>, schema.properties.list[i].v, level + 1, schema.properties.list[i].k)]

MemberSteps(kind, members, level) ==
    [i \in DOMAIN members.list |->
        Step(<<[Line(level + 1, kind) EXCEPT !.index = i - 1]>>, members.list[i], level + 2, NoName)]

\* 'properties' in schema.items || '$ref' in schema.items
ItemsSteps(schema, spec, level) ==
    IF /\ schema.items # 0 /\ schema.type = "array"
       /\ (spec.nodes[schema.items].properties.present \/ spec.nodes[schema.items].ref # <<>>)
    THEN <<Step(<<Line(level + 1, "items")>>, schema.items, level + 2, NoName)>>
    ELSE <<>>

RECURSIVE formatSchemaForDisplay(_, _, _, _, _, _)
RECURSIVE FormatSteps(_, _, _, _)

\* output += label; output += formatSchemaForDisplay(...), for each step
FormatSteps(steps, spec, acc, depth) ==
    IF steps = <<>> \/ acc.thrown THEN acc
    ELSE LET step == Head(steps)
             sub == formatSchemaForDisplay(Node(spec, step.id), spec, acc.visited,
                                           step.level, step.propertyName, depth + 1)
         IN IF sub.thrown THEN sub
            ELSE FormatSteps(Tail(steps), spec,
                             Output(acc.out \o step.label \o sub.out, sub.visited), depth)

\* the `$ref` branch without its `visited.has` test: what the claims about
\* cycles are tested against
FormatReference_NoCycleTest(schema, spec, visited, level, propertyName, depth) ==
    LET refValue == resolveReference(schema.ref, spec)
    IN IF ~IsObject(refValue)
       THEN Output(<<[Line(level, "invalid") EXCEPT !.name = propertyName,
                                                    !.target = RefName(schema.ref)]>>,
                   visited)
       ELSE LET sub == formatSchemaForDisplay(AsSchema(refValue, spec), spec,
                           visited \cup {schema.ref}, level, NoName, depth + 1)
            IN IF sub.thrown THEN sub
               ELSE Output(<<[Line(level, "ref") EXCEPT !.name = propertyName,
                                                        !.target = RefName(schema.ref)]>>
                           \o sub.out,
                           sub.visited \ {schema.ref})

\* if ('$ref' in schema && schema.$ref) { ... }
FormatReference(schema, spec, visited, level, propertyName, depth) ==
    IF schema.ref \in visited
    THEN Output(<<[Line(level, "circular") EXCEPT !.name = propertyName,
                                                  !.target = RefName(schema.ref)]>>,
                visited)
    ELSE LET refValue == resolveReference(schema.ref, spec)
         IN IF ~IsObject(refValue)
            THEN Output(<<[Line(level, "invalid") EXCEPT !.name = propertyName,
                                                         !.target = RefName(schema.ref)]>>,
                        visited)
            ELSE LET sub == formatSchemaForDisplay(AsSchema(refValue, spec), spec,
                                visited \cup {schema.ref}, level, NoName, depth + 1)
                 IN IF sub.thrown THEN sub
                    ELSE Output(<<[Line(level, "ref") EXCEPT !.name = propertyName,
                                                             !.target = RefName(schema.ref)]>>
                                \o sub.out,
                                sub.visited \ {schema.ref})

\* the rest of the function, for a schema that is no reference
FormatSchemaObject(schema, spec, visited, level, propertyName, depth) ==
    LET isRequired == /\ propertyName # NoName
                      /\ schema.required.present
                      /\ propertyName \in SeqToSet(schema.required.list)
        head == IF propertyName # NoName
                THEN <<[Line(level, "property") EXCEPT
                           !.name = propertyName, !.required = isRequired,
                           !.type = getTypeString(schema, spec),
                           !.description = schema.description]>>
                ELSE IF level = 0 /\ schema.properties.present
                THEN <<Line(level, "open")>>
                ELSE <<>>
        props == IF schema.properties.present
                 THEN FormatSteps(PropertySteps(schema, level), spec, Output(head, visited), depth)
                 ELSE Output(head, visited)
        closed == IF ~props.thrown /\ schema.properties.present
                     /\ level = 0 /\ schema.type = "object"
                  THEN Output(props.out \o <<Line(level, "close")>>, props.visited)
                  ELSE props
        nested == FormatSteps(
                      ItemsSteps(schema, spec, level)
                      \o (IF schema.allOf.present THEN MemberSteps("allOf", schema.allOf, level) ELSE <<>>)
                      \o (IF schema.anyOf.present THEN MemberSteps("anyOf", schema.anyOf, level) ELSE <<>>)
                      \o (IF schema.oneOf.present THEN MemberSteps("oneOf", schema.oneOf, level) ELSE <<>>),
                      spec, closed, depth)
    IN IF nested.thrown THEN nested
       ELSE IF propertyName # NoName /\ Constraints(schema) # <<>>
       THEN Output(nested.out \o <<[Line(level + 2, "constraints") EXCEPT
                                       !.constraints = Constraints(schema)]>>,
                   nested.visited)
       ELSE nested

formatSchemaForDisplay(schema, spec, visited, level, propertyName, depth) ==
    IF depth > MaxCallStack THEN Overflow(visited)
    ELSE IF NoSchema(schema) THEN Output(<<>>, visited)
    ELSE IF schema.ref # <<>>
    THEN FormatReference(schema, spec, visited, level, propertyName, depth)
    ELSE FormatSchemaObject(schema, spec, visited, level, propertyName, depth)

\* no schema walk has been asked for
IdleSchema ==
    /\ requestBodySchema = 0
    /\ exampleRequestBody = NotCalled
    /\ requestBodySchemaDisplay = NotCalled

\* ----------------------------------------------- request history items
\* A URL: the path split at its placeholders ("/items/", "{id}"), preceded by
\* the service host, and the entries of its query string.  '' has neither.
Url(tokens, query) == [tokens |-> tokens, query |-> query]
NoUrl == Url(<<>>, <<>>)

\* A text: either the characters typed, or JSON.stringify(of, null, indent)
Text(s) == [text |-> s, of |-> Undefined, indent |-> 0]
Stringify(v, indent) == [text |-> "", of |-> v, indent |-> indent]

\* RequestHistoryItem (its timestamp left out; ids are given out in order)
HistoryItem(id, method, path, body, query, urlParams, authScheme) ==
    [id |-> id, method |-> method, path |-> path, url |-> NoUrl, requestBody |-> body,
     requestQuery |-> query, requestUrlParams |-> urlParams, headers |-> <<>>,
     response |-> Null, responseError |-> Null, status |-> 0, authScheme |-> authScheme]

\* no call of sendRequest is in progress
NoCall == [phase |-> "idle",
           item |-> HistoryItem(0, "", <<>>, Null, <<>>, <<>>, ""),
           url |-> NoUrl, headers |-> <<>>, res |-> [status |-> 0, contentType |-> ""],
           settled |-> "none"]

\* no call outlives its component: an unmounted component's call keeps the
\* method and the body text the component had last
NoOrphan == [of |-> NoCall, method |-> "", body |-> Text("")]

\* the tester as mounted, no endpoint selected
IdleTester ==
    /\ selectedPath = <<>>
    /\ selectedMethod = ""
    /\ selectedAuthScheme = ""
    /\ requestHistory = <<>>
    /\ endpointFormState = <<>>
    /\ requestQuery = <<>>
    /\ requestUrlParams = <<>>
    /\ requestBody = Text("")
    /\ response = Null
    /\ responseError = Null
    /\ sendingRequest = FALSE
    /\ authCredentials = <<>>
    /\ menuAuthCredentials = <<>>
    /\ clerk = "unavailable"
    /\ call = NoCall
    /\ orphan = NoOrphan
    /\ calls = 0
    /\ fetched = <<>>

\* ----------------------------------------------------------- config store
\* A service host is modelled by its id; its baseUrl is one to one with it.
Hosts == {"h1", "h2"}
NoHost == ""

\* localStorage: 'o-s-service-hosts' and 'o-s-selected-service-host-id'
Storage(hosts, selectedId) == [hosts |-> hosts, selectedId |-> selectedId]

\* new URL('openapi.json', baseUrl).href
SpecUrlOf(host) == host

\* mergedConfig.openApiSpecUrl: the environment's (the hosts of the model
\* have no openApiPath that would override it), else the one derived from
\* the selected host's baseUrl, else none
openApiSpecUrl(selected) ==
    IF envOpenApiSpecUrl # "" THEN envOpenApiSpecUrl
    ELSE IF selected # NoHost THEN SpecUrlOf(selected)
    ELSE ""

\* hasServiceHost: !!serviceHost.value?.trim()
hasServiceHost == selectedServiceHost # NoHost

\* the most calls of loadSpec in one run of the model
MaxLoads == 3

\* a call of loadSpec: who awaits it, the URL it fetches, and where it is:
\*   "fetch"  awaiting fetch(specUrl)      "json"  awaiting response.json()
\*   "done"   returned after storing the document
\*   "failed" returned after storing the error
Load(guarded, url) == [guarded |-> guarded, url |-> url, phase |-> "fetch"]
Outstanding == {i \in DOMAIN loads : loads[i].phase \in {"fetch", "json"}}

\* what the server at `url` answers with a parsable document
DocumentAt(url) == [Document(<<>>, NoSecurity, NoSchemes, <<>>, <<>>) EXCEPT !.title = url]

\* loadSpec up to its first await: loading = true, error = null, fetch(specUrl)
loadSpec(url, guarded) ==
    /\ Len(loads) < MaxLoads
    /\ loading' = TRUE
    /\ error' = Null
    /\ loads' = Append(loads, Load(guarded, url))
    /\ UNCHANGED openApiSpec

\* loadOpenApiSpec, under the selection `selected` its caller has just made
loadOpenApiSpec(selected) ==
    IF isLoadingOpenApi
    THEN UNCHANGED <<storeVars, isLoadingOpenApi, loads>>
    ELSE IF openApiSpecUrl(selected) # ""
    THEN /\ isLoadingOpenApi' = TRUE
         /\ loadSpec(openApiSpecUrl(selected), TRUE)
    ELSE /\ loading' = FALSE
         /\ openApiSpec' = Null
         /\ error' = Null
         /\ UNCHANGED <<isLoadingOpenApi, loads>>

\* loadConfigFromLocalStorage, run on the storage `stored` with the
\* selection `selected` in memory: the selection it leaves
StoredSelection(stored, selected) ==
    IF stored.selectedId # NoHost /\ stored.selectedId # selected
    THEN (IF stored.selectedId \in SeqToSet(stored.hosts) THEN stored.selectedId ELSE NoHost)
    ELSE selected

\* reload: loadConfigFromLocalStorage, then loadOpenApiSpec
reload(stored, selected) ==
    /\ localStorage' = stored
    /\ serviceHosts' = stored.hosts
    /\ selectedServiceHost' = StoredSelection(stored, selected)
    /\ loadOpenApiSpec(StoredSelection(stored, selected))

\* a component calls config.loadOpenApiSpec()
LoadOpenApiSpec ==
    /\ loadOpenApiSpec(selectedServiceHost)
    /\ UNCHANGED <<serviceHosts, selectedServiceHost, localStorage, envOpenApiSpecUrl>>
    /\ UNCHANGED <<securityVars, schemaVars, testerVars>>

\* selectHost(hostId)
SelectHost(hostId) ==
    /\ reload(Storage(localStorage.hosts, hostId),
              IF hostId \in SeqToSet(serviceHosts) THEN hostId ELSE NoHost)
    /\ UNCHANGED <<envOpenApiSpecUrl, securityVars, schemaVars, testerVars>>

\* localStorageService.addServiceHost(host): update in place or push
AddServiceHost(hosts, host) ==
    IF host \in SeqToSet(hosts) THEN hosts ELSE Append(hosts, host)

\* addHost(host)
AddHost(host) ==
    /\ reload(Storage(AddServiceHost(localStorage.hosts, host), localStorage.selectedId),
              selectedServiceHost)
    /\ UNCHANGED <<envOpenApiSpecUrl, securityVars, schemaVars, testerVars>>

\* hosts.filter(h => h.id !== id)
RemoveServiceHost(hosts, id) ==
    LET Keep(h) == h # id IN SelectSeq(hosts, Keep)

\* removeHost(id)
RemoveHost(id) ==
    /\ reload(Storage(RemoveServiceHost(localStorage.hosts, id),
                      IF localStorage.selectedId = id \/ selectedServiceHost = id
                      THEN NoHost ELSE localStorage.selectedId),
              IF selectedServiceHost = id THEN NoHost ELSE selectedServiceHost)
    /\ UNCHANGED <<envOpenApiSpecUrl, securityVars, schemaVars, testerVars>>

\* the refresh button (shown if hasServiceHost, disabled while loading):
\* refreshOpenApiSpec calls openApiStore.loadSpec() itself
RefreshOpenApiSpec ==
    /\ hasServiceHost
    /\ ~loading
    /\ loadSpec(openApiSpecUrl(selectedServiceHost), FALSE)
    /\ UNCHANGED <<isLoadingOpenApi, serviceHosts, selectedServiceHost, localStorage,
                   envOpenApiSpecUrl, securityVars, schemaVars, testerVars>>

\* a variant without the `finally`
ReleaseGuard_Kept(i) == UNCHANGED isLoadingOpenApi

\* loadOpenApiSpec's `finally`, run when the loadSpec it awaits has returned
ReleaseGuard(i) ==
    IF loads[i].guarded THEN isLoadingOpenApi' = FALSE ELSE UNCHANGED isLoadingOpenApi

\* loadSpec's catch and finally, without the finally: what the claims about
\* a failed load are tested against
LoadSpecCatch_NoFinally(message) ==
    /\ error' = Str(message)
    /\ UNCHANGED <<loading, openApiSpec>>

\* loadSpec's catch and finally
LoadSpecCatch(message) ==
    /\ error' = Str(message)
    /\ loading' = FALSE
    /\ UNCHANGED openApiSpec

Settle(i, phase) ==
    /\ loads' = [loads EXCEPT ![i].phase = phase]
    /\ UNCHANGED <<serviceHosts, selectedServiceHost, localStorage, envOpenApiSpecUrl,
                   securityVars, schemaVars, testerVars>>

\* fetch resolves with a 2xx response: loadSpec goes on to response.json()
FetchResponds(i) ==
    /\ i \in DOMAIN loads /\ loads[i].phase = "fetch"
    /\ Settle(i, "json")
    /\ UNCHANGED <<storeVars, isLoadingOpenApi>>

\* fetch rejects, or resolves with a response that is not ok
FetchFails(i, message) ==
    /\ i \in DOMAIN loads /\ loads[i].phase = "fetch"
    /\ LoadSpecCatch(message)
    /\ ReleaseGuard(i)
    /\ Settle(i, "failed")

\* response.json() resolves: the document is stored
BodyParsed(i) ==
    /\ i \in DOMAIN loads /\ loads[i].phase = "json"
    /\ openApiSpec' = DocumentAt(loads[i].url)
    /\ loading' = FALSE
    /\ UNCHANGED error
    /\ ReleaseGuard(i)
    /\ Settle(i, "done")

\* response.json() rejects: the body is no JSON
BodyUnparsable(i) ==
    /\ i \in DOMAIN loads /\ loads[i].phase = "json"
    /\ LoadSpecCatch("Unexpected token in JSON")
    /\ ReleaseGuard(i)
    /\ Settle(i, "failed")

FetchFailures == {"Failed to fetch", "Failed to fetch OpenAPI spec: Not Found"}

IdleConfig ==
    /\ isLoadingOpenApi = FALSE
    /\ serviceHosts = <<>>
    /\ selectedServiceHost = NoHost
    /\ localStorage = Storage(<<>>, NoHost)
    /\ envOpenApiSpecUrl = ""
    /\ loads = <<>>

InitLoad ==
    /\ openApiSpec = Null
    /\ loading = TRUE
    /\ error = Null
    /\ operation = Null
    /\ available = NotCalled
    /\ IdleResolver
    /\ IdleSchema
    /\ isLoadingOpenApi = FALSE
    /\ serviceHosts = <<>>
    /\ selectedServiceHost = NoHost
    /\ localStorage = Storage(<<>>, NoHost)
    /\ envOpenApiSpecUrl \in {"", "env"}
    /\ loads = <<>>
    /\ IdleTester

NextLoad ==
    \/ LoadOpenApiSpec
    \/ \E hostId \in Hosts \cup {NoHost} : SelectHost(hostId)
    \/ \E host \in Hosts : AddHost(host)
    \/ \E id \in Hosts : RemoveHost(id)
    \/ RefreshOpenApiSpec
    \/ \E i \in 1..MaxLoads : FetchResponds(i)
    \/ \E i \in 1..MaxLoads : \E message \in FetchFailures : FetchFails(i, message)
    \/ \E i \in 1..MaxLoads : BodyParsed(i)
    \/ \E i \in 1..MaxLoads : BodyUnparsable(i)

SpecLoad == InitLoad /\ [][NextLoad]_vars

\* C3: at most one document fetch is outstanding at any time.
C3_SingleFlight == Cardinality(Outstanding) <= 1

\* C7: a load that fails (fetch rejected, response not ok, body no JSON)
\* ends with `error` a string and `loading` false, and leaves the document
\* that was loaded before in place.
C7_LoadFailure ==
    [][\A i \in DOMAIN loads :
          (loads[i].phase \in {"fetch", "json"} /\ loads'[i].phase = "failed") =>
              /\ error' # Null /\ error'.t = "str"
              /\ loading' = FALSE
              /\ openApiSpec' = openApiSpec]_vars

\* the call i of loadSpec returns at this step, in the given way
Completes(i, phase) ==
    /\ i \in Outstanding
    /\ loads'[i].phase = phase

\* C27: once no load is outstanding the store shows the outcome of one load:
\* while a load is outstanding `loading` is true, when the last outstanding
\* load returns `loading` is false, and when that load has stored its
\* document no error of another load is left next to it.
C27_SingleLoadOutcome ==
    [][/\ (\E i \in DOMAIN loads' : loads'[i].phase \in {"fetch", "json"}) => loading'
       /\ \A i \in DOMAIN loads :
             /\ Completes(i, "done") /\ Outstanding \ {i} = {} =>
                   ~loading' /\ error' = Null /\ openApiSpec' = DocumentAt(loads[i].url)
             /\ Completes(i, "failed") /\ Outstanding \ {i} = {} =>
                   ~loading' /\ error' # Null]_vars
\* a call of loadSpec gets its answer: the fetch settles, the body is read
LoadReturns ==
    \/ \E i \in 1..MaxLoads : FetchResponds(i)
    \/ \E i \in 1..MaxLoads : \E message \in FetchFailures : FetchFails(i, message)
    \/ \E i \in 1..MaxLoads : BodyParsed(i)
    \/ \E i \in 1..MaxLoads : BodyUnparsable(i)

\* the loads of SpecLoad, where every fetch and every body read settles
\* (the promises loadSpec awaits); what the user does is left free
SpecLoadLive == SpecLoad /\ WF_vars(LoadReturns)

\* the store shows a result for the spec URL in effect: cleared if there is
\* none, else that URL's document or a load error
InEffect ==
    IF openApiSpecUrl(selectedServiceHost) = ""
    THEN openApiSpec = Null /\ error = Null
    ELSE error # Null \/ openApiSpec = DocumentAt(openApiSpecUrl(selectedServiceHost))

\* C28: whenever, after a first load, the store does not show a result for the spec URL in effect
\* (a host was selected, added or removed), it eventually does: a load for
\* the new selection takes effect, the previous document does not stay.
C28_SelectionTakesEffect == (loads # <<>> /\ ~InEffect) ~> InEffect
\* C19: the single-flight flag is cleared when a guarded load ends, however
\* it ends: the flag is set only while a load that went through the guard is
\* outstanding, so with no load outstanding it is false and the next call of
\* loadOpenApiSpec is not suppressed.
C19_GuardReleased ==
    isLoadingOpenApi => \E i \in Outstanding : loads[i].guarded

\* guarded loads have ended in each way, and a later one has started
C19_Witness ==
    /\ Len(loads) = 3
    /\ loads[1].guarded /\ loads[1].phase = "failed"
    /\ loads[2].guarded /\ loads[2].phase = "done"
    /\ loads[3].guarded /\ loads[3].phase = "fetch"
    /\ error = Null

\* a document was loaded, and the next load (both through the guard, so one
\* after the other) has failed: the document is still there
C7_Witness ==
    /\ Len(loads) >= 2
    /\ loads[1].guarded /\ loads[1].phase = "done"
    /\ loads[2].guarded /\ loads[2].phase = "failed"
    /\ openApiSpec = DocumentAt(loads[1].url)
    /\ error # Null
    /\ ~loading

\* ------------------------------------------------------- endpoint tester
CLERK_BEARER_SCHEME == "__clerk_bearer__"

\* ['POST', 'PUT', 'PATCH']
BodyMethods == {"POST", "PUT", "PATCH"}

\* a ParameterObject, and a RequestBodyObject whose application/json
\* content has the schema object `id`
Parameter(name, in) == [name |-> name, in |-> in, ref |-> <<>>]
RequestBody(id) == [t |-> "obj", schema |-> id, ref |-> <<>>]

\* a ReferenceObject where a parameter or a request body may stand
ParameterRef(ref) == [name |-> "", in |-> "", ref |-> ref]
RequestBodyRef(ref) == [t |-> "obj", schema |-> 0, ref |-> ref]

\* method.toLowerCase()
toLowerCase(method) ==
    CASE method = "GET" -> "get"
      [] method = "POST" -> "post"
      [] method = "PUT" -> "put"
      [] method = "PATCH" -> "patch"
      [] method = "DELETE" -> "delete"
      [] OTHER -> method

\* object[key] on an object kept as entries: <<value>>, or <<>> for undefined
RECURSIVE Lookup(_, _)
Lookup(entries, key) ==
    IF entries = <<>> THEN <<>>
    ELSE IF Head(entries).k = key THEN <<Head(entries).v>>
    ELSE Lookup(Tail(entries), key)

\* getSelectedEndpoint(path, method): the operation object, or null
getSelectedEndpoint(path, method) ==
    IF openApiSpec = Null \/ path = <<>> \/ method = "" THEN Null
    ELSE LET pathItem == Lookup(openApiSpec.paths, path)
         IN IF pathItem = <<>> THEN Null
            ELSE LET found == Lookup(pathItem[1], toLowerCase(method))
                 IN IF found = <<>> THEN Null ELSE found[1]

\* a variant whose key leaves the method out
getEndpointKey_PathOnly(path, method) ==
    IF path = <<>> \/ method = "" THEN <<>> ELSE <<path>>
\* `${method}:${path}`, or null (modelled by <<>>) without path or method
getEndpointKey(path, method) ==
    IF path = <<>> \/ method = "" THEN <<>> ELSE <<method, ":", path>>

\* endpointFormState.get(key) || null, null modelled by <<>>
getEndpointFormState(path, method) ==
    LET key == getEndpointKey(path, method)
    IN IF key = <<>> \/ key \notin DOMAIN endpointFormState THEN <<>>
       ELSE <<endpointFormState[key]>>

\* EndpointFormState
FormState(query, urlParams, body, authScheme) ==
    [requestQuery |-> query, requestUrlParams |-> urlParams, requestBody |-> body,
     selectedAuthScheme |-> authScheme]

\* saveCurrentFormState under the form as it will be: the Map after
\* saveEndpointFormState(path, method, {...})
saveCurrentFormState(path, method, state) ==
    IF getEndpointKey(path, method) = <<>> THEN endpointFormState
    ELSE (getEndpointKey(path, method) :> state) @@ endpointFormState

\* !text.trim()
IsBlank(text) == text.of = Undefined /\ text.text \in {"", " "}

\* JSON.parse(text): what JSON.stringify wrote parses back to its value, and
\* none of the typed texts of the model (BodyTexts) is JSON
JSONParse(text) ==
    IF text.of # Undefined THEN text.of ELSE Thrown("Unexpected token in JSON")

\* what the editor lets the user leave in the body
BodyTexts == {Text(" "), Text("{invalid")}

\* what the user types into a parameter's input
ParamValues == {"", "a b"}

\* encodeURIComponent(String(value))
encodeURIComponent(value) ==
    CASE value = "a b" -> "a%20b"
      [] value = "7" -> "7"
      [] OTHER -> value

\* how URLSearchParams.toString() writes a value
FormEncode(value) ==
    CASE value = "a b" -> "a+b"
      [] value = "7" -> "7"
      [] OTHER -> value

\* url.replace(pattern, replacement) with a string pattern: the first
\* occurrence only
RECURSIVE Replace(_, _, _)
Replace(tokens, pattern, replacement) ==
    IF tokens = <<>> THEN <<>>
    ELSE IF Head(tokens) = pattern THEN <<replacement>> \o Tail(tokens)
    ELSE <<Head(tokens)>> \o Replace(Tail(tokens), pattern, replacement)

\* for (const [key, value] of Object.entries(requestUrlParams.value)) ...
RECURSIVE ApplyPathParameters(_, _)
ApplyPathParameters(tokens, entries) ==
    IF entries = <<>> THEN tokens
    ELSE ApplyPathParameters(
            IF Head(entries).v # ""
            THEN Replace(tokens, "{" \o Head(entries).k \o "}", encodeURIComponent(Head(entries).v))
            ELSE tokens,
            Tail(entries))

\* for (const [key, value] of Object.entries(requestQuery.value)) append
RECURSIVE BuildQueryParams(_)
BuildQueryParams(entries) ==
    IF entries = <<>> THEN <<>>
    ELSE (IF Head(entries).v # "" THEN <<Head(entries)>> ELSE <<>>)
         \o BuildQueryParams(Tail(entries))

\* queryParams.toString(), entry by entry
QueryString(queryParams) ==
    [i \in DOMAIN queryParams |-> Prop(queryParams[i].k, FormEncode(queryParams[i].v))]

\* btoa(`${username}:${password}`)
btoa(credentialsStr) ==
    CASE credentialsStr = "u:p" -> "dTpw"
      [] credentialsStr = "u:" -> "dTo="
      [] credentialsStr = ":p" -> "OnA="
      [] OTHER -> credentialsStr

\* credentials?.field, undefined modelled by ""
Field(credentials, field) ==
    IF field \in DOMAIN credentials THEN credentials[field] ELSE ""

\* authCredentials.value[schemeName], undefined modelled by no fields
CredentialsOf(all, schemeName) ==
    IF schemeName \in DOMAIN all THEN all[schemeName] ELSE <<>>

\* what the request gains
Carry(headers, queryParams) == [headers |-> headers, queryParams |-> queryParams]

\* the branch on scheme.type: the header or query parameter the request gains
SchemeCredentials(scheme, credentials) ==
    IF scheme.type = "apiKey" THEN
        IF Field(credentials, "value") # "" THEN
            IF scheme.in = "header"
            THEN Carry(<<Prop(scheme.name, Field(credentials, "value"))>>, <<>>)
            ELSE IF scheme.in = "query"
            THEN Carry(<<>>, <<Prop(scheme.name, Field(credentials, "value"))>>)
            ELSE Carry(<<>>, <<>>)
        ELSE Carry(<<>>, <<>>)
    ELSE IF scheme.type = "http" THEN
        IF scheme.scheme = "basic" THEN
            IF Field(credentials, "username") # "" /\ Field(credentials, "password") # ""
            THEN Carry(<<Prop("Authorization", "Basic " \o
                    btoa(Field(credentials, "username") \o ":" \o Field(credentials, "password")))>>, <<>>)
            ELSE Carry(<<>>, <<>>)
        ELSE IF scheme.scheme = "bearer" /\ Field(credentials, "token") # ""
        THEN Carry(<<Prop("Authorization", "Bearer " \o Field(credentials, "token"))>>, <<>>)
        ELSE Carry(<<>>, <<>>)
    ELSE IF scheme.type = "oauth2" /\ Field(credentials, "accessToken") # ""
    THEN Carry(<<Prop("Authorization", "Bearer " \o Field(credentials, "accessToken"))>>, <<>>)
    ELSE IF scheme.type = "openIdConnect" /\ Field(credentials, "idToken") # ""
    THEN Carry(<<Prop("Authorization", "Bearer " \o Field(credentials, "idToken"))>>, <<>>)
    ELSE Carry(<<>>, <<>>)

\* the else-if branch of sendRequest for a scheme of the document, read
\* from the tester's own authCredentials
SelectedSchemeCredentials ==
    IF selectedAuthScheme # "" /\ openApiSpec # Null /\ openApiSpec.securitySchemes.present
    THEN LET found == FindScheme(openApiSpec.securitySchemes.list, selectedAuthScheme)
         IN IF found # <<>> /\ ~found[1].scheme.isRef
            THEN SchemeCredentials(found[1].scheme, CredentialsOf(authCredentials, selectedAuthScheme))
            ELSE Carry(<<>>, <<>>)
    ELSE Carry(<<>>, <<>>)

\* the most calls of sendRequest in one run of the model
MaxSends == 1

\* fetch(url, options)
Request(id, url, method, headers, body) ==
    [id |-> id, url |-> url, method |-> method, headers |-> headers, body |-> body]

\* the Response fetch resolved with, before its body is read
NoResponse == [status |-> 0, contentType |-> ""]
Response(status, contentType) == [status |-> status, contentType |-> contentType]

\* responseData (statusText and headers left out)
ResponseData(status, body) == [t |-> "response", status |-> status, body |-> body]

\* sendRequest has returned
Settled == [NoCall EXCEPT !.settled = "fulfilled"]

\* config.serviceHost || ''
SERVICE_HOST == selectedServiceHost

\* historyItem.requestBody
RequestBodyOf(text) ==
    IF IsBlank(text) THEN Null
    ELSE IF IsThrown(JSONParse(text)) THEN Str(text.text)
    ELSE JSONParse(text)

\* headers[name] = value, for each header gained
RECURSIVE SetHeaders(_, _)
SetHeaders(headers, gained) ==
    IF gained = <<>> THEN headers
    ELSE SetHeaders(AssignKey(headers, Head(gained)), Tail(gained))

\* the catch of sendRequest, swallowing the error: what the claims about a
\* failed request are tested against
Catch_Swallowed(item, message) == item

\* the catch of sendRequest: historyItem.responseError = error
Catch(item, message) == [item EXCEPT !.responseError = Str(message)]

\* a variant that appends
addRequestHistory_Push(history, item) == Append(history, item)

\* endpoint store: addRequestHistory(item), requestHistory.value.unshift(item)
addRequestHistory(history, item) == <<item>> \o history

\* sendRequest's catch and finally
Fail(message) ==
    /\ responseError' = Catch(call.item, message).responseError
    /\ requestHistory' = addRequestHistory(requestHistory, Catch(call.item, message))
    /\ sendingRequest' = FALSE
    /\ call' = Settled
    /\ UNCHANGED <<response, fetched>>

\* sendRequest from `if (queryParams.toString())` up to its await of fetch,
\* or to its return on a body that is no JSON (whose entry the inner catch
\* adds and the outer finally adds again)
Prepared(item, tokens, queryParams, headers, method, body) ==
    LET url == Url(tokens, QueryString(queryParams))
        filled == [item EXCEPT !.url = url, !.headers = headers]
        hasBody == method \in BodyMethods /\ ~IsBlank(body)
    IN [invalid |-> hasBody /\ IsThrown(JSONParse(body)),
        failed |-> [filled EXCEPT !.responseError = Str("Invalid JSON in request body")],
        request |-> Request(item.id, url, method, headers,
                            IF hasBody THEN Stringify(JSONParse(body), 0) ELSE Undefined),
        call |-> [phase |-> "fetch", item |-> filled, url |-> url, headers |-> headers,
                  res |-> NoResponse, settled |-> "none"]]

Prepare(item, tokens, queryParams, headers) ==
    LET prepared == Prepared(item, tokens, queryParams, headers, selectedMethod, requestBody)
    IN IF prepared.invalid
       THEN /\ responseError' = Str("Invalid JSON in request body")
            /\ response' = Null
            /\ requestHistory' =
                  addRequestHistory(addRequestHistory(requestHistory, prepared.failed),
                                    prepared.failed)
            /\ sendingRequest' = FALSE
            /\ call' = Settled
            /\ UNCHANGED fetched
       ELSE /\ fetched' = Append(fetched, prepared.request)
            /\ call' = prepared.call
            /\ sendingRequest' = TRUE
            /\ response' = Null
            /\ responseError' = Null
            /\ UNCHANGED requestHistory

\* the Send Request button (disabled while sendingRequest): sendRequest up
\* to its first await, or to its return.  While getToken() is awaited the
\* call keeps the URL built so far and the query parameters not yet written
\* into it.  useAuth() has isSignedIn only once it has loaded, so the wait
\* for isLoaded under isSignedIn never runs.
SendRequest ==
    /\ ~sendingRequest
    /\ selectedPath # <<>> /\ selectedMethod # ""
    /\ calls' = calls + 1
    /\ LET item == HistoryItem(calls + 1, selectedMethod, selectedPath,
                               RequestBodyOf(requestBody), requestQuery, requestUrlParams,
                               selectedAuthScheme)
           tokens == ApplyPathParameters(<<SERVICE_HOST>> \o selectedPath, requestUrlParams)
           queryParams == BuildQueryParams(requestQuery)
           headers == <<Prop("Content-Type", "application/json")>>
       IN IF selectedAuthScheme = CLERK_BEARER_SCHEME
          THEN IF clerk = "signedIn"
               THEN /\ call' = [phase |-> "getToken", item |-> item,
                                url |-> Url(tokens, queryParams), headers |-> headers,
                                res |-> NoResponse, settled |-> "none"]
                    /\ sendingRequest' = TRUE
                    /\ response' = Null
                    /\ responseError' = Null
                    /\ UNCHANGED <<requestHistory, fetched>>
               ELSE Prepare(item, tokens, queryParams, headers)
          ELSE Prepare(item, tokens,
                       queryParams \o SelectedSchemeCredentials.queryParams,
                       SetHeaders(headers, SelectedSchemeCredentials.headers))
    /\ UNCHANGED <<selectedPath, selectedMethod, selectedAuthScheme, endpointFormState, formVars,
                   authCredentials, menuAuthCredentials, clerk, orphan>>
    /\ UNCHANGED <<storeVars, securityVars, schemaVars, configVars>>

\* what a step of a call in progress leaves alone
Awaited(phase) ==
    /\ call.phase = phase
    /\ UNCHANGED <<selectedPath, selectedMethod, selectedAuthScheme, endpointFormState, formVars,
                   authCredentials, menuAuthCredentials, clerk, orphan, calls>>
    /\ UNCHANGED <<storeVars, securityVars, schemaVars, configVars>>

\* getToken() resolves, with a token or with null (modelled by "")
TokenResolves(token) ==
    /\ Awaited("getToken")
    /\ Prepare(call.item, call.url.tokens, call.url.query,
               IF token # ""
               THEN SetHeaders(call.headers, <<Prop("Authorization", "Bearer " \o token)>>)
               ELSE call.headers)

\* getToken() rejects
TokenRejects(message) ==
    /\ Awaited("getToken")
    /\ Fail(message)

\* fetch resolves with a response of any status
FetchResolves(res) ==
    /\ Awaited("fetch")
    /\ call' = [call EXCEPT !.phase = "body", !.res = res]
    /\ UNCHANGED <<response, responseError, sendingRequest, requestHistory, fetched>>

\* fetch rejects
FetchRejects(message) ==
    /\ Awaited("fetch")
    /\ Fail(message)

\* responseData, its body as res.json() or res.text() gave it
ResponseDataOf(res) ==
    ResponseData(res.status, IF res.contentType = "application/json" THEN Obj(<<>>) ELSE Str("OK"))

\* res.json() or res.text() resolves
BodyRead ==
    /\ Awaited("body")
    /\ LET responseData == ResponseDataOf(call.res)
       IN /\ response' = responseData
          /\ requestHistory' =
                addRequestHistory(requestHistory,
                    [call.item EXCEPT !.response = responseData, !.status = call.res.status])
    /\ sendingRequest' = FALSE
    /\ call' = Settled
    /\ UNCHANGED <<responseError, fetched>>

\* res.json() or res.text() rejects
BodyFails(message) ==
    /\ Awaited("body")
    /\ Fail(message)

\* endpoint store: filteredRequestHistory (computed)
filteredRequestHistory ==
    IF selectedPath = <<>> \/ selectedMethod = "" THEN <<>>
    ELSE SelectSeq(requestHistory,
                   LAMBDA item : item.path = selectedPath /\ item.method = selectedMethod)

\* a variant that keeps the entries and blanks what they recorded
clearEndpointHistory_Blanked(history, path, method) ==
    [i \in DOMAIN history |->
        IF history[i].path = path /\ history[i].method = method
        THEN [history[i] EXCEPT !.response = Null, !.responseError = Null, !.status = 0]
        ELSE history[i]]

\* endpoint store: clearEndpointHistory(path, method)
clearEndpointHistory(history, path, method) ==
    SelectSeq(history, LAMBDA item : ~(item.path = path /\ item.method = method))

\* what a step outside the mounted tester leaves alone
StoreOnly ==
    /\ UNCHANGED <<selectedPath, selectedMethod, selectedAuthScheme, endpointFormState, formVars,
                   response, responseError, sendingRequest, authCredentials,
                   menuAuthCredentials, clerk, call, calls>>
    /\ UNCHANGED <<storeVars, securityVars, schemaVars, configVars>>

\* the Clear button over the history list: clearCurrentEndpointHistory
ClearCurrentEndpointHistory ==
    /\ filteredRequestHistory # <<>>
    /\ requestHistory' = clearEndpointHistory(requestHistory, selectedPath, selectedMethod)
    /\ UNCHANGED <<orphan, fetched>>
    /\ StoreOnly

\* endpoint store: clearAllHistory()
ClearAllHistory ==
    /\ requestHistory' = <<>>
    /\ UNCHANGED <<orphan, fetched>>
    /\ StoreOnly

\* The endpoint is taken out of the route: setSelectedEndpoint(null, null).
\* The tester, rendered under v-if="selectedEndpoint", is unmounted with its
\* refs; a call of sendRequest it was awaiting goes on without it.  (One such
\* call at a time is followed.)
Deselect ==
    /\ selectedPath # <<>>
    /\ orphan = NoOrphan
    /\ selectedPath' = <<>>
    /\ selectedMethod' = ""
    /\ orphan' = IF call.phase = "idle" THEN NoOrphan
                 ELSE [of |-> call, method |-> selectedMethod, body |-> requestBody]
    /\ call' = NoCall
    /\ sendingRequest' = FALSE
    /\ response' = Null
    /\ responseError' = Null
    /\ requestQuery' = <<>>
    /\ requestUrlParams' = <<>>
    /\ requestBody' = Text("")
    /\ UNCHANGED <<selectedAuthScheme, requestHistory, endpointFormState, authCredentials,
                   menuAuthCredentials, clerk, calls, fetched>>
    /\ UNCHANGED <<storeVars, securityVars, schemaVars, configVars>>

\* getToken() resolves for the call of an unmounted tester
OrphanTokenResolves(token) ==
    /\ orphan.of.phase = "getToken"
    /\ LET prepared ==
               Prepared(orphan.of.item, orphan.of.url.tokens, orphan.of.url.query,
                        IF token # ""
                        THEN SetHeaders(orphan.of.headers,
                                        <<Prop("Authorization", "Bearer " \o token)>>)
                        ELSE orphan.of.headers,
                        orphan.method, orphan.body)
       IN IF prepared.invalid
          THEN /\ requestHistory' =
                     addRequestHistory(addRequestHistory(requestHistory, prepared.failed),
                                       prepared.failed)
               /\ orphan' = NoOrphan
               /\ UNCHANGED fetched
          ELSE /\ fetched' = Append(fetched, prepared.request)
               /\ orphan' = [orphan EXCEPT !.of = prepared.call]
               /\ UNCHANGED requestHistory
    /\ StoreOnly

\* fetch resolves for the call of an unmounted tester
OrphanFetchResolves(res) ==
    /\ orphan.of.phase = "fetch"
    /\ orphan' = [orphan EXCEPT !.of.phase = "body", !.of.res = res]
    /\ UNCHANGED <<requestHistory, fetched>>
    /\ StoreOnly

\* res.json() or res.text() resolves for the call of an unmounted tester
OrphanBodyRead ==
    /\ orphan.of.phase = "body"
    /\ requestHistory' =
          addRequestHistory(requestHistory,
              [orphan.of.item EXCEPT !.response = ResponseDataOf(orphan.of.res),
                                     !.status = orphan.of.res.status])
    /\ orphan' = NoOrphan
    /\ UNCHANGED fetched
    /\ StoreOnly

\* getToken(), fetch or the reading of the body rejects for the call of an
\* unmounted tester
OrphanFails(message) ==
    /\ orphan.of.phase \in {"getToken", "fetch", "body"}
    /\ requestHistory' = addRequestHistory(requestHistory, Catch(orphan.of.item, message))
    /\ orphan' = NoOrphan
    /\ UNCHANGED fetched
    /\ StoreOnly

\* `name in object`
HasEntry(entries, name) == \E i \in DOMAIN entries : entries[i].k = name

\* the watch's loop over endpoint.parameters: the form's two parameter
\* objects, an entry '' added (or reset, without restored state) per parameter
RECURSIVE InitializeParams(_, _, _)
InitializeParams(form, parameters, hasRestoredState) ==
    IF parameters = <<>> THEN form
    ELSE LET resolved == Head(parameters)
             blank == Prop(resolved.name, "")
         IN InitializeParams(
                IF resolved.in = "query" /\ (~hasRestoredState \/ ~HasEntry(form.requestQuery, resolved.name))
                THEN [form EXCEPT !.requestQuery = AssignKey(@, blank)]
                ELSE IF resolved.in = "path"
                        /\ (~hasRestoredState \/ ~HasEntry(form.requestUrlParams, resolved.name))
                THEN [form EXCEPT !.requestUrlParams = AssignKey(@, blank)]
                ELSE form,
                Tail(parameters), hasRestoredState)

\* `example || {}`
OrEmptyObject(example) ==
    IF example \in {Null, Undefined, Str(""), Num("0"), Bool("false")} THEN Obj(<<>>) ELSE example

\* the watch's initial request body for an operation with a request body
InitialRequestBody(endpoint) ==
    IF endpoint.requestBody.schema # 0
    THEN LET example == generateExampleFromSchema(Node(openApiSpec, endpoint.requestBody.schema),
                                                  openApiSpec, 1)
         IN IF IsThrown(example) THEN Text("") ELSE Stringify(OrEmptyObject(example), 2)
    ELSE Stringify(Obj(<<>>), 2)

\* the form the watch on [path, method] leaves for the endpoint selected
FormFor(path, method) ==
    LET savedState == getEndpointFormState(path, method)
        hasRestoredState == savedState # <<>>
        endpoint == getSelectedEndpoint(path, method)
        start == IF hasRestoredState THEN savedState[1] ELSE FormState(<<>>, <<>>, Text(""), "")
        params == IF endpoint # Null
                  THEN InitializeParams(start, endpoint.parameters, hasRestoredState)
                  ELSE start
    IN IF ~hasRestoredState /\ endpoint # Null /\ endpoint.requestBody # Null
       THEN [params EXCEPT !.requestBody = InitialRequestBody(endpoint)]
       ELSE params

\* the form changes: the component's refs, and the auto-save watch
SetForm(form) ==
    /\ requestQuery' = form.requestQuery
    /\ requestUrlParams' = form.requestUrlParams
    /\ requestBody' = form.requestBody
    /\ selectedAuthScheme' = form.selectedAuthScheme
    /\ endpointFormState' = saveCurrentFormState(selectedPath', selectedMethod', form)

\* what the form is now
CurrentForm == FormState(requestQuery, requestUrlParams, requestBody, selectedAuthScheme)

\* what an action on the form leaves alone
FormOnly ==
    /\ UNCHANGED <<requestHistory, response, responseError, sendingRequest, authCredentials,
                   menuAuthCredentials, clerk, orphan, call, calls, fetched>>
    /\ UNCHANGED <<storeVars, securityVars, schemaVars, configVars>>

\* selectEndpoint(path, method): setSelectedEndpoint, then the watch on
\* [path, method]
SelectEndpoint(path, method) ==
    /\ path # selectedPath \/ method # selectedMethod
    /\ selectedPath' = path
    /\ selectedMethod' = method
    /\ response' = Null
    /\ responseError' = Null
    /\ SetForm(FormFor(path, method))
    /\ UNCHANGED <<requestHistory, sendingRequest, authCredentials, menuAuthCredentials, clerk, orphan,
                   call, calls, fetched>>
    /\ UNCHANGED <<storeVars, securityVars, schemaVars, configVars>>

\* the parameters of the selected operation that are `in` the given place
ParametersIn(place) ==
    LET endpoint == getSelectedEndpoint(selectedPath, selectedMethod)
    IN IF endpoint = Null THEN {}
       ELSE {p.name : p \in {q \in SeqToSet(endpoint.parameters) : q.in = place}}

\* v-model="requestUrlParams[param.name]"
SetUrlParam(name, value) ==
    /\ name \in ParametersIn("path")
    /\ UNCHANGED <<selectedPath, selectedMethod>>
    /\ SetForm([CurrentForm EXCEPT !.requestUrlParams = AssignKey(@, Prop(name, value))])
    /\ FormOnly

\* v-model="requestQuery[param.name]"
SetQueryParam(name, value) ==
    /\ name \in ParametersIn("query")
    /\ UNCHANGED <<selectedPath, selectedMethod>>
    /\ SetForm([CurrentForm EXCEPT !.requestQuery = AssignKey(@, Prop(name, value))])
    /\ FormOnly

\* v-model:text="requestBodyJson", shown for an operation with a request body
SetRequestBody(text) ==
    /\ getSelectedEndpoint(selectedPath, selectedMethod) # Null
    /\ getSelectedEndpoint(selectedPath, selectedMethod).requestBody # Null
    /\ UNCHANGED <<selectedPath, selectedMethod>>
    /\ SetForm([CurrentForm EXCEPT !.requestBody = text])
    /\ FormOnly

\* the schemes the menu and the tester offer
OfferedSchemes ==
    {securitySchemes[i].name : i \in DOMAIN securitySchemes}
    \cup (IF clerk # "unavailable" THEN {CLERK_BEARER_SCHEME} ELSE {})

\* toggleSelectedAuthScheme(scheme), null modelled by ""
ToggleSelectedAuthScheme(scheme) ==
    /\ UNCHANGED <<selectedPath, selectedMethod>>
    /\ SetForm([CurrentForm EXCEPT !.selectedAuthScheme =
                    IF scheme = "" \/ selectedAuthScheme = scheme THEN "" ELSE scheme])
    /\ FormOnly

\* the fields the menu shows for a scheme
CredentialFields(scheme) ==
    IF scheme.type = "apiKey" THEN {"value"}
    ELSE IF scheme.type = "http" /\ scheme.scheme = "basic" THEN {"username", "password"}
    ELSE IF scheme.type = "http" /\ scheme.scheme = "bearer" THEN {"token"}
    ELSE IF scheme.type = "oauth2" THEN {"accessToken"}
    ELSE IF scheme.type = "openIdConnect" THEN {"idToken"}
    ELSE {}

\* what the user types into a credential field
CredentialValues(field) ==
    CASE field = "username" -> {"u"}
      [] field = "password" -> {"p"}
      [] field = "value" -> {"k"}
      [] OTHER -> {"tok"}

\* a variant that also keeps what was typed in localStorage
UpdateAuthCredential_Persisted(schemeName, field, value) ==
    /\ menuAuthCredentials' =
          (schemeName :> ((field :> value) @@ CredentialsOf(menuAuthCredentials, schemeName)))
          @@ menuAuthCredentials
    /\ localStorage' = [credentials |-> menuAuthCredentials'] @@ localStorage
    /\ UNCHANGED <<endpointVars, formVars, response, responseError, sendingRequest,
                   authCredentials, clerk, orphan, call, calls, fetched>>
    /\ UNCHANGED <<storeVars, securityVars, schemaVars, isLoadingOpenApi, serviceHosts,
                   selectedServiceHost, envOpenApiSpecUrl, loads>>
\* SecuritySchemeMenu: updateAuthCredential(schemeName, field, value)
UpdateAuthCredential(schemeName, field, value) ==
    /\ menuAuthCredentials' =
          (schemeName :> ((field :> value) @@ CredentialsOf(menuAuthCredentials, schemeName)))
          @@ menuAuthCredentials
    /\ UNCHANGED <<endpointVars, formVars, response, responseError, sendingRequest,
                   authCredentials, clerk, orphan, call, calls, fetched>>
    /\ UNCHANGED <<storeVars, securityVars, schemaVars, configVars>>

\* SecuritySchemeMenu: clearAuthCredential(schemeName)
ClearAuthCredential(schemeName) ==
    /\ schemeName \in DOMAIN menuAuthCredentials
    /\ menuAuthCredentials' =
          [s \in DOMAIN menuAuthCredentials \ {schemeName} |-> menuAuthCredentials[s]]
    /\ UNCHANGED <<endpointVars, formVars, response, responseError, sendingRequest,
                   authCredentials, clerk, orphan, call, calls, fetched>>
    /\ UNCHANGED <<storeVars, securityVars, schemaVars, configVars>>

\* ------------------------------------------------ inputs: endpoint tester
\* Three families of documents, each with the part of the tester it drives:
\*   parameters  GET /a/{id}/b/{id}?q, whose path names its parameter twice,
\*               and POST /items with a body {id: integer} (id required)
\*   Clerk       GET /items and POST /items, no scheme of the document, the
\*               Clerk bearer option offered
\*   schemes     GET /items under one security scheme named "auth"
ItemSchema ==
    <<[Schema EXCEPT !.type = "object", !.required = List(<<"id">>),
                     !.properties = List(<<Prop("id", 2)>>)],
      Typed("integer")>>

PostItems ==
    Prop(<<"/items">>, <<Prop("post", Operation(NoSecurity, <<>>, RequestBody(1)))>>)

ParameterDocument ==
    Document(<<Prop(<<"/a/", "{id}", "/b/", "{id}">>,
                    <<Prop("get", Operation(NoSecurity,
                                            <<Parameter("id", "path"), Parameter("q", "query")>>,
                                            Null))>>),
               PostItems>>,
             NoSecurity, NoSchemes, <<>>, ItemSchema)

ClerkDocument ==
    Document(<<Prop(<<"/items">>,
                    <<Prop("get", Operation(NoSecurity, <<>>, Null)),
                      Prop("post", Operation(NoSecurity, <<>>, RequestBody(1)))>>)>>,
             NoSecurity, NoSchemes, <<>>, ItemSchema)

TesterSchemes ==
    {ApiKeyScheme("header", "X-API-Key"), ApiKeyScheme("query", "api_key"),
     HttpScheme("basic"), HttpScheme("bearer"), TokenScheme("oauth2"),
     TokenScheme("openIdConnect")}

SchemeDocument(scheme) ==
    Document(<<Prop(<<"/items">>, <<Prop("get", Operation(NoSecurity, <<>>, Null))>>)>>,
             NoSecurity, Schemes(<<[name |-> "auth", scheme |-> scheme]>>), <<>>, <<>>)

\* method.toUpperCase()
toUpperCase(method) ==
    CASE method = "get" -> "GET"
      [] method = "post" -> "POST"
      [] method = "put" -> "PUT"
      [] method = "patch" -> "PATCH"
      [] method = "delete" -> "DELETE"
      [] OTHER -> method

\* the endpoints the sidebar lists: a path and a method, in upper case
TesterEndpoints ==
    IF openApiSpec = Null THEN {}
    ELSE UNION {{<<openApiSpec.paths[i].k, toUpperCase(openApiSpec.paths[i].v[j].k)>> :
                    j \in DOMAIN openApiSpec.paths[i].v} : i \in DOMAIN openApiSpec.paths}

TokenFailures == {"Failed to load token"}
RequestFailures == {"Failed to fetch"}
BodyFailures == {"Unexpected end of JSON input"}
Responses == {Response(200, "application/json"), Response(404, "text/plain")}

\* ------------------------------------------------------- endpoint tester
\* the document has been loaded from the environment's URL; Clerk, where it
\* is configured, has loaded
InitSend ==
    /\ \/ openApiSpec = ParameterDocument /\ clerk = "unavailable"
       \/ openApiSpec = ClerkDocument /\ clerk \in {"signedOut", "signedIn"}
       \/ \E scheme \in TesterSchemes : openApiSpec = SchemeDocument(scheme) /\ clerk = "unavailable"
    /\ loading = FALSE
    /\ error = Null
    /\ operation = Null
    /\ available = NotCalled
    /\ IdleResolver
    /\ IdleSchema
    /\ isLoadingOpenApi = FALSE
    /\ serviceHosts = <<>>
    /\ selectedServiceHost = NoHost
    /\ localStorage = Storage(<<>>, NoHost)
    /\ envOpenApiSpecUrl = "env"
    /\ loads = <<[Load(TRUE, "env") EXCEPT !.phase = "done"]>>
    /\ selectedPath = <<>>
    /\ selectedMethod = ""
    /\ selectedAuthScheme = ""
    /\ requestHistory = <<>>
    /\ endpointFormState = <<>>
    /\ requestQuery = <<>>
    /\ requestUrlParams = <<>>
    /\ requestBody = Text("")
    /\ response = Null
    /\ responseError = Null
    /\ sendingRequest = FALSE
    /\ authCredentials = <<>>
    /\ menuAuthCredentials = <<>>
    /\ call = NoCall
    /\ orphan = NoOrphan
    /\ calls = 0
    /\ fetched = <<>>

NextSend ==
    \/ \E e \in TesterEndpoints : SelectEndpoint(e[1], e[2])
    \/ \E name \in {"id"}, value \in ParamValues : SetUrlParam(name, value)
    \/ \E name \in {"q"}, value \in ParamValues : SetQueryParam(name, value)
    \/ \E text \in BodyTexts : SetRequestBody(text)
    \/ \E scheme \in OfferedSchemes \cup {""} : ToggleSelectedAuthScheme(scheme)
    \/ \E i \in DOMAIN securitySchemes :
          \E field \in CredentialFields(securitySchemes[i].scheme) :
             \E value \in CredentialValues(field) :
                UpdateAuthCredential(securitySchemes[i].name, field, value)
    \/ \E i \in DOMAIN securitySchemes : ClearAuthCredential(securitySchemes[i].name)
    \/ calls < MaxSends /\ SendRequest
    \/ \E token \in {"", "jwt"} : TokenResolves(token)
    \/ \E message \in TokenFailures : TokenRejects(message)
    \/ \E res \in Responses : FetchResolves(res)
    \/ \E message \in RequestFailures : FetchRejects(message)
    \/ BodyRead
    \/ \E message \in BodyFailures : BodyFails(message)

SpecSend == InitSend /\ [][NextSend]_vars

\* the network calls made by the call of sendRequest that built `item`
FetchesOf(item) == {j \in DOMAIN fetched : fetched[j].id = item.id}

\* sendRequest ran for POST, PUT or PATCH with a body text that is not blank
\* and is no JSON: the item then keeps the text itself
RanWithInvalidJson(item) == item.method \in BodyMethods /\ item.requestBody.t = "str"

\* C4: a call of sendRequest for a POST, PUT or PATCH endpoint whose body
\* text is not blank and does not parse as JSON makes no network call, and
\* its history entry has responseError "Invalid JSON in request body" and
\* response null.
C4_InvalidJsonBody ==
    /\ RanWithInvalidJson(call.item) => FetchesOf(call.item) = {}
    /\ \A i \in DOMAIN requestHistory :
          RanWithInvalidJson(requestHistory[i]) =>
              /\ FetchesOf(requestHistory[i]) = {}
              /\ requestHistory[i].responseError = Str("Invalid JSON in request body")
              /\ requestHistory[i].response = Null

\* the body a request built from the recorded entry would carry
RecordedBody(item) ==
    IF item.method \in BodyMethods /\ item.requestBody # Null
    THEN Stringify(item.requestBody, 0)
    ELSE Undefined

\* the dispatched request is the one the entry records
AsRecorded(request, item) ==
    /\ request.method = item.method
    /\ request.url = item.url
    /\ request.headers = item.headers
    /\ request.body = RecordedBody(item)

\* C29: the request sendRequest dispatches has the method, URL, headers and
\* body recorded on the history entry of that attempt, whatever the user
\* changes while sendRequest waits for the Clerk token.
C29_DispatchedAsRecorded ==
    \A j \in DOMAIN fetched :
       /\ (call.phase \in {"fetch", "body"} /\ call.item.id = fetched[j].id) =>
             AsRecorded(fetched[j], call.item)
       /\ \A i \in DOMAIN requestHistory :
             requestHistory[i].id = fetched[j].id => AsRecorded(fetched[j], requestHistory[i])
\* what is saved for the endpoint e = <<path, method>>
SavedFor(e) == getEndpointFormState(e[1], e[2])

\* the endpoint selected, as <<path, method>>
Selected == <<selectedPath, selectedMethod>>

\* C30: the form state of an endpoint round-trips.  What is saved for the
\* selected endpoint is the form as it is (so what it has when it is left);
\* a step changes what is saved for no endpoint but the one selected after
\* it (so edits under B leave A's state alone); and selecting an endpoint
\* that has a saved state makes the form exactly that state.
C30_FormStateRoundTrip ==
    [][/\ getEndpointKey(selectedPath, selectedMethod) # <<>> => SavedFor(Selected) = <<CurrentForm>>
       /\ \A e \in TesterEndpoints : e # Selected' => SavedFor(e)' = SavedFor(e)
       /\ (Selected' # Selected /\ SavedFor(Selected') # <<>>) =>
             CurrentForm' = SavedFor(Selected')[1]]_vars

\* the endpoint with parameters is selected with its path value as edited,
\* and the other one keeps the body text entered while it was selected
C30_Witness ==
    /\ selectedMethod = "GET"
    /\ HasEntry(requestUrlParams, "id")
    /\ \E i \in DOMAIN requestUrlParams : requestUrlParams[i] = Prop("id", "a b")
    /\ \E e \in TesterEndpoints :
          /\ e # Selected
          /\ SavedFor(e) # <<>>
          /\ SavedFor(e)[1].requestBody = Text("{invalid")
\* the scheme of the document that is selected: <<scheme>>, or <<>>
SelectedScheme ==
    IF selectedAuthScheme \in {"", CLERK_BEARER_SCHEME} THEN <<>>
    ELSE LET found == FindScheme(securitySchemes, selectedAuthScheme)
         IN IF found = <<>> THEN <<>> ELSE <<found[1].scheme>>

\* the credentials the user has entered for the selected scheme
Entered == CredentialsOf(menuAuthCredentials, selectedAuthScheme)

\* the user has entered what the scheme asks for
HasEntered(scheme) ==
    \A field \in CredentialFields(scheme) : Field(Entered, field) # ""

HasHeader(request, name, value) ==
    \E i \in DOMAIN request.headers : request.headers[i] = Prop(name, value)

HasQueryParam(request, name, value) ==
    \E i \in DOMAIN request.url.query : request.url.query[i] = Prop(name, FormEncode(value))

\* the request carries the entered credentials as the scheme's type asks
Carries(request, scheme) ==
    CASE scheme.type = "apiKey" /\ scheme.in = "header" ->
            HasHeader(request, scheme.name, Field(Entered, "value"))
      [] scheme.type = "apiKey" /\ scheme.in = "query" ->
            HasQueryParam(request, scheme.name, Field(Entered, "value"))
      [] scheme.type = "http" /\ scheme.scheme = "basic" ->
            HasHeader(request, "Authorization",
                      "Basic " \o btoa(Field(Entered, "username") \o ":" \o Field(Entered, "password")))
      [] scheme.type = "http" /\ scheme.scheme = "bearer" ->
            HasHeader(request, "Authorization", "Bearer " \o Field(Entered, "token"))
      [] scheme.type = "oauth2" ->
            HasHeader(request, "Authorization", "Bearer " \o Field(Entered, "accessToken"))
      [] scheme.type = "openIdConnect" ->
            HasHeader(request, "Authorization", "Bearer " \o Field(Entered, "idToken"))
      [] OTHER -> TRUE

\* C5: with a security scheme selected and its credentials entered, the
\* request sendRequest dispatches carries them as the scheme's type asks:
\* apiKey as the header or query parameter the scheme names, http basic as
\* Authorization: Basic base64(user:pass), http bearer, oauth2 and
\* openIdConnect as Authorization: Bearer <token>.
C5_CredentialsCarried ==
    [][(Len(fetched') > Len(fetched) /\ SelectedScheme # <<>> /\ HasEntered(SelectedScheme[1]))
          => Carries(fetched'[Len(fetched')], SelectedScheme[1])]_vars

\* C6: when the network call rejects or the reading of the response body
\* fails, sendRequest returns without throwing, the attempt's one history
\* entry has the failure message as its string responseError and response
\* null, and no further network call is made.
C6_DispatchFailure ==
    [][(call.phase \in {"fetch", "body"} /\ call'.phase = "idle" /\ response' = Null)
          => /\ call'.settled = "fulfilled"
             /\ responseError' # Null /\ responseError'.t = "str"
             /\ Len(requestHistory') = Len(requestHistory) + 1
             /\ requestHistory'[1].id = call.item.id
             /\ requestHistory'[1].responseError = responseError'
             /\ requestHistory'[1].response = Null
             /\ fetched' = fetched
             /\ ~sendingRequest']_vars

\* a dispatched request has failed, in the network call or in the reading of
\* the body, and is in the history with its message
C6_Witness ==
    /\ call = Settled
    /\ requestHistory # <<>>
    /\ FetchesOf(requestHistory[1]) # {}
    /\ requestHistory[1].responseError \in
          {Str(message) : message \in RequestFailures \cup BodyFailures}
    /\ requestHistory[1].response = Null
    /\ responseError = requestHistory[1].responseError

\* C9: the URL sendRequest dispatches has no placeholder left of a path
\* parameter with a non-empty value, also when the path names it more than
\* once, and has every other non-empty parameter value in its query.
C9_PlaceholdersReplaced ==
    call.phase \in {"fetch", "body"} =>
        LET url == fetched[Len(fetched)].url
        IN /\ \A i \in DOMAIN call.item.requestUrlParams :
                 call.item.requestUrlParams[i].v # "" =>
                    \A t \in DOMAIN url.tokens :
                       url.tokens[t] # "{" \o call.item.requestUrlParams[i].k \o "}"
           /\ \A i \in DOMAIN call.item.requestQuery :
                 call.item.requestQuery[i].v # "" =>
                    \E q \in DOMAIN url.query :
                       url.query[q] = Prop(call.item.requestQuery[i].k,
                                           FormEncode(call.item.requestQuery[i].v))

\* the call in progress was sent for another endpoint than the one selected
\* now
Superseded ==
    /\ call.phase # "idle"
    /\ call.item.path # selectedPath \/ call.item.method # selectedMethod

\* C18: when a request that was sent for another endpoint than the one now
\* selected ends, its result does not become the response or responseError
\* shown, and its entry is not in the selected endpoint's filtered history.
C18_SupersededResultDiscarded ==
    [][(Superseded /\ call'.phase = "idle") =>
            /\ response' = response
            /\ responseError' = responseError
            /\ \A i \in DOMAIN filteredRequestHistory' :
                    filteredRequestHistory'[i].id # call.item.id]_vars

\* the runs of sendRequest that have returned
Attempts == calls - (IF call.phase = "idle" THEN 0 ELSE 1)

\* C26: every run of sendRequest that has returned has put exactly one entry
\* into requestHistory, whichever way it ended, and no two entries have the
\* same id.
C26_OneEntryPerAttempt ==
    /\ Len(requestHistory) = Attempts
    /\ \A i, j \in DOMAIN requestHistory :
          requestHistory[i].id = requestHistory[j].id => i = j
\* ------------------------------------------- inputs: security resolution
SchemeNames == {"apiKeyAuth", "bearerAuth"}

SchemeOf(name) ==
    IF name = "apiKeyAuth" THEN ApiKeyScheme("header", "X-API-Key")
    ELSE HttpScheme("bearer")

\* requirement objects with at most MaxRequirementKeys keys, and lists of at
\* most MaxRequirements of them
MaxRequirementKeys == 2
MaxRequirements == 2

RECURSIVE SeqsUpTo(_, _)
SeqsUpTo(S, n) ==
    IF n = 0 THEN {<<>>}
    ELSE LET shorter == SeqsUpTo(S, n - 1)
         IN shorter \cup {Append(s, x) : s \in shorter, x \in S}

IsInjective(s) == \A i, j \in DOMAIN s : s[i] = s[j] => i = j

Requirements == {r \in SeqsUpTo(SchemeNames, MaxRequirementKeys) : r # <<>> /\ IsInjective(r)}
SecurityLists == {NoSecurity} \cup {Security(l) : l \in SeqsUpTo(Requirements, MaxRequirements)}

SchemeEntries(names) == [i \in DOMAIN names |-> [name |-> names[i], scheme |-> SchemeOf(names[i])]]
SchemeMaps ==
    {NoSchemes} \cup
    {Schemes(SchemeEntries(names)) : names \in {n \in SeqsUpTo(SchemeNames, 2) : IsInjective(n)}}

SecurityDocuments ==
    {Document(<<>>, sec, schemes, <<>>, <<>>) : sec \in SecurityLists, schemes \in SchemeMaps}
SecurityOperations ==
    {Null} \cup {Operation(sec, <<>>, Null) : sec \in SecurityLists}

\* --------------------------------------------------- inputs: schema walks
\* Documents of MaxNodes schema objects.  Object 1 is the request body schema
\* of the operation, objects 2 and 3 are components.schemas.A and .B; an
\* object's inline children are objects after it, so every cycle goes
\* through a $ref.  "Missing" names no schema.
MaxNodes == 3

SchemaLeaves == {Typed("string"), RefTo("A"), RefTo("B"), RefTo("Missing")}

ObjectOf(entries) == [Schema EXCEPT !.type = "object", !.properties = List(entries)]
ArrayOf(c) == [Schema EXCEPT !.type = "array", !.items = c]

SchemaShapes(i) ==
    LET kids == (i + 1)..MaxNodes
    IN SchemaLeaves
       \cup {ObjectOf(<<Prop("p", c)>>) : c \in kids}
       \cup {ArrayOf(c) : c \in kids}
       \cup {[Schema EXCEPT !.anyOf = List(<<c>>)] : c \in kids}
       \cup {[Schema EXCEPT !.oneOf = List(<<c>>)] : c \in kids}
       \cup {ObjectOf(<<Prop("p", c), Prop("q", d)>>) : c \in kids, d \in kids}
       \cup {[Schema EXCEPT !.allOf = List(<<c, d>>)] : c \in kids, d \in kids}

RECURSIVE NodeArrays(_)
NodeArrays(i) ==
    IF i > MaxNodes THEN {<<>>}
    ELSE {<<n>> \o rest : n \in SchemaShapes(i), rest \in NodeArrays(i + 1)}

NamedSchemas == <<Prop("A", 2), Prop("B", 3)>>

ReferenceDocuments ==
    {Document(<<>>, NoSecurity, NoSchemes, NamedSchemas, nodes) : nodes \in NodeArrays(1)}

\* {id: integer, name: string} under every declaration of `required`
RequiredLists ==
    {NoList, List(<<>>), List(<<"id">>), List(<<"name">>), List(<<"id", "name">>), List(<<"other">>)}

ObjectDocuments ==
    {Document(<<>>, NoSecurity, NoSchemes, <<>>,
              <<[Schema EXCEPT !.type = type, !.required = required,
                               !.properties = List(<<Prop("id", 2), Prop("name", 3)>>)],
                Typed("integer"), Typed("string")>>) :
        type \in {"", "object"}, required \in RequiredLists}

SchemaDocuments == ReferenceDocuments \cup ObjectDocuments

\* ------------------------------------------------------------ schema walks

InitSchema ==
    /\ openApiSpec \in SchemaDocuments
    /\ loading = FALSE
    /\ error = Null
    /\ operation = Null
    /\ available = NotCalled
    /\ IdleResolver
    /\ requestBodySchema = 1
    /\ exampleRequestBody = NotCalled
    /\ requestBodySchemaDisplay = NotCalled
    /\ IdleConfig
    /\ IdleTester

\* getExampleFromRequestBody: generateExampleFromSchema(schema, openApiSpec.value)
GenerateExample ==
    /\ ~exampleRequestBody.called
    /\ exampleRequestBody' =
            Returned(generateExampleFromSchema(Node(openApiSpec, requestBodySchema), openApiSpec, 1))
    /\ UNCHANGED <<storeVars, securityVars, requestBodySchema, requestBodySchemaDisplay, configVars, testerVars>>

\* requestBodySchemaDisplay: formatSchemaForDisplay(schema, openApiSpec),
\* with the defaults visited = new Set(), level = 0, propertyName = undefined
FormatSchema ==
    /\ ~requestBodySchemaDisplay.called
    /\ requestBodySchemaDisplay' =
            Returned(formatSchemaForDisplay(Node(openApiSpec, requestBodySchema), openApiSpec,
                                            {}, 0, NoName, 1))
    /\ UNCHANGED <<storeVars, securityVars, requestBodySchema, exampleRequestBody, configVars, testerVars>>

NextSchema == GenerateExample \/ FormatSchema

SpecSchema == InitSchema /\ [][NextSchema]_vars

\* the request body schema as the two operations were handed it
RootSchema == Node(openApiSpec, requestBodySchema)

\* C2: generateExampleFromSchema returns for every document, also for one
\* whose schemas refer to themselves: it never runs out of call stack.
C2_GenerateTerminates ==
    exampleRequestBody.called => ~IsThrown(exampleRequestBody.v)

\* the $ref pointers that occur in the document
DocumentRefs == {openApiSpec.nodes[i].ref : i \in DOMAIN openApiSpec.nodes} \ {<<>>}

CircularLine(level, propertyName, ref) ==
    [Line(level, "circular") EXCEPT !.name = propertyName, !.target = RefName(ref)]

\* C8: formatSchemaForDisplay returns for every document, also a cyclic one,
\* and leaves `visited` as it found it; called on a $ref whose pointer is
\* already in `visited` it returns exactly the one circular line and adds
\* nothing from the referenced schema.
C8_FormatTerminates ==
    requestBodySchemaDisplay.called =>
        /\ ~requestBodySchemaDisplay.v.thrown
        /\ requestBodySchemaDisplay.v.visited = {}
        /\ \A i \in DOMAIN openApiSpec.nodes : \A level \in 0..2 : \A name \in {NoName, "p"} :
              openApiSpec.nodes[i].ref # <<>> =>
                \A visited \in SUBSET DocumentRefs :
                    openApiSpec.nodes[i].ref \in visited =>
                        formatSchemaForDisplay(openApiSpec.nodes[i], openApiSpec, visited, level, name, 1)
                            = Output(<<CircularLine(level, name, openApiSpec.nodes[i].ref)>>, visited)

\* a cyclic document was displayed: the text has a circular line
C8_Witness ==
    /\ requestBodySchemaDisplay.called
    /\ ~requestBodySchemaDisplay.v.thrown
    /\ \E i \in DOMAIN requestBodySchemaDisplay.v.out :
          /\ requestBodySchemaDisplay.v.out[i].kind = "circular"
          /\ requestBodySchemaDisplay.v.out[i].target = "A"

\* the keys of an object value, in order
Keys(entries) == [i \in DOMAIN entries |-> entries[i].k]

RequiredKeys(schema) ==
    LET Listed(key) == key \in SeqToSet(schema.required.list)
    IN SelectSeq(Keys(schema.properties.list), Listed)

\* the request body schema is an object schema read by its properties
IsObjectSchema(schema) ==
    /\ schema.ref = <<>> /\ schema.example = Undefined /\ ~schema.enum.present
    /\ EffectiveType(schema) = "object" /\ schema.properties.present

\* C10: the example of an object schema has exactly the properties named in
\* `required` when `required` is declared, and all properties when it is not;
\* {id: integer, name: string} gives {id: 0} under required [id] and
\* {id: 0, name: "string"} without `required`.
C10_RequiredProperties ==
    (exampleRequestBody.called /\ IsObjectSchema(RootSchema) /\ ~IsThrown(exampleRequestBody.v)) =>
        /\ exampleRequestBody.v.t = "obj"
        /\ Keys(exampleRequestBody.v.v) =
                IF RootSchema.required.present THEN RequiredKeys(RootSchema)
                ELSE Keys(RootSchema.properties.list)
        /\ (openApiSpec \in ObjectDocuments /\ RootSchema.required = List(<<"id">>))
                => exampleRequestBody.v = Obj(<<Prop("id", Num("0"))>>)
        /\ (openApiSpec \in ObjectDocuments /\ ~RootSchema.required.present)
                => exampleRequestBody.v = Obj(<<Prop("id", Num("0")), Prop("name", Str("string"))>>)

\* the example of {id, name} with required [id] was generated
C10_Witness ==
    /\ exampleRequestBody.called
    /\ IsObjectSchema(RootSchema)
    /\ RootSchema.required = List(<<"id">>)
    /\ exampleRequestBody.v = Obj(<<Prop("id", Num("0"))>>)

\* ---------------------------------------------------- security resolver
InitSecurity ==
    /\ openApiSpec \in SecurityDocuments
    /\ loading = FALSE
    /\ error = Null
    /\ operation \in SecurityOperations
    /\ available = NotCalled
    /\ IdleResolver
    /\ IdleSchema
    /\ IdleConfig
    /\ IdleTester

\* a component asks which schemes the operation may use
GetAvailableSecuritySchemes ==
    /\ ~available.called
    /\ available' = Returned(getAvailableSecuritySchemes(operation))
    /\ UNCHANGED <<storeVars, operation, resolverVars, schemaVars, configVars, testerVars>>

NextSecurity == GetAvailableSecuritySchemes

SpecSecurity == InitSecurity /\ [][NextSecurity]_vars

\* C1: an operation that declares `security: []` has no available scheme,
\* whatever the document-level security says.
C1_EmptyOperationSecurityOverrides ==
    (available.called /\ operation # Null
        /\ operation.security.present /\ operation.security.list = <<>>)
    => available.v = <<>>


\* the scheme names of a security list, requirement by requirement
RECURSIVE NamedIn(_)
NamedIn(list) == IF list = <<>> THEN <<>> ELSE Head(list) \o NamedIn(Tail(list))

FirstSeen(names, name) == CHOOSE i \in DOMAIN names : names[i] = name /\ \A j \in 1..(i - 1) : names[j] # name

HasOperationSecurity ==
    /\ available.called
    /\ operation # Null
    /\ operation.security.present
    /\ operation.security.list # <<>>

\* C12: for an operation with a non-empty security list the result holds
\* exactly the defined schemes its requirement sets name, each once, ordered
\* by where the name is first seen, whatever the document-level list names.
C12_OperationSchemesOnly ==
    HasOperationSecurity =>
        LET named == NamedIn(operation.security.list)
            out == available.v
        IN /\ \A i \in DOMAIN out :
                /\ out[i] \in SeqToSet(securitySchemes)
                /\ out[i].name \in SeqToSet(named)
           /\ \A s \in SeqToSet(securitySchemes) :
                s.name \in SeqToSet(named) => s \in SeqToSet(out)
           /\ \A i, j \in DOMAIN out :
                i < j => FirstSeen(named, out[i].name) < FirstSeen(named, out[j].name)

C12_Witness ==
    /\ HasOperationSecurity
    /\ operation.security.list = << <<"apiKeyAuth">> >>
    /\ openApiSpec.security = Security(<< <<"bearerAuth">> >>)
    /\ Len(securitySchemes) = 2
    /\ available.v = <<[name |-> "apiKeyAuth", scheme |-> SchemeOf("apiKeyAuth")]>>

\* ------------------------------------------- inputs: reference chains
\* The components of a document hold, under schemas, parameters and
\* requestBodies alike, a terminal object "T" and reference objects
\* "R1" -> "T", "R2" -> "R1", ...; a reference that reaches "T" after `hops`
\* pointers is the one to ChainName(hops - 1).
MaxHops == 2

ChainName(i) == IF i = 0 THEN "T" ELSE <<"R1", "R2", "R3", "R4">>[i]
ChainRef(kind, hops) == <<"#", "components", kind, ChainName(hops - 1)>>

TerminalParameter == Parameter("id", "path")
ChainParameter(hops) ==
    IF hops = 0 THEN TerminalParameter ELSE ParameterRef(ChainRef("parameters", hops))
ChainBody(hops, schema) ==
    IF hops = 0 THEN RequestBody(schema) ELSE RequestBodyRef(ChainRef("requestBodies", hops))

\* nodes[1] is the terminal schema, nodes[i + 1] refers to it over i pointers
ChainNodes == <<Typed("string")>> \o [i \in 1..MaxHops |-> RefTo(ChainName(i - 1))]

ChainDocument(schemaHops) ==
    WithComponents(
        Document(<<>>, NoSecurity, NoSchemes,
                 [i \in 1..MaxHops |-> Prop(ChainName(i - 1), i)], ChainNodes),
        [i \in 1..MaxHops |-> Prop(ChainName(i - 1), ChainParameter(i - 1))],
        [i \in 1..MaxHops |-> Prop(ChainName(i - 1), ChainBody(i - 1, schemaHops + 1))])

ChainOperation(parameterHops, bodyHops, schemaHops) ==
    Operation(NoSecurity, <<ChainParameter(parameterHops)>>, ChainBody(bodyHops, schemaHops + 1))

\* pointers of up to MaxSegments segments
MaxSegments == 3
PointerSegments == {"components", "schemas", "T", "Missing", "type", "constructor"}
Pointers == {<<"#">> \o p : p \in SeqsUpTo(PointerSegments, MaxSegments) \ {<<>>}}

\* ------------------------------------------------ reference resolution
InitReference ==
    /\ \E parameterHops, bodyHops, schemaHops \in 0..MaxHops :
            /\ openApiSpec = ChainDocument(schemaHops)
            /\ operation = ChainOperation(parameterHops, bodyHops, schemaHops)
    /\ loading = FALSE
    /\ error = Null
    /\ available = NotCalled
    /\ pointer \in Pointers
    /\ referent = NotCalled
    /\ parameter = NotCalled
    /\ listed = <<>>
    /\ copied = NotCalled
    /\ IdleServer
    /\ IdleSchema
    /\ IdleConfig
    /\ IdleTester

\* a caller resolves a pointer
ResolveReference ==
    /\ ~referent.called
    /\ referent' = Returned(resolveReference(pointer, openApiSpec))
    /\ UNCHANGED <<storeVars, operation, available, pointer, parameter, listed, copied, serverVars,
                   schemaVars, configVars, testerVars>>

\* the tester resolves the operation's parameter
ResolveParameter ==
    /\ ~parameter.called
    /\ parameter' = Returned(resolveParameter(operation.parameters[1]))
    /\ UNCHANGED <<storeVars, operation, available, pointer, referent, listed, copied, serverVars,
                   schemaVars, configVars, testerVars>>

\* getExampleFromRequestBody(operation)
GetExampleFromRequestBody ==
    /\ ~exampleRequestBody.called
    /\ requestBodySchema' = getRequestBodySchema(operation)
    /\ exampleRequestBody' =
            Returned(IF operation = Null \/ openApiSpec = Null \/ requestBodySchema' = 0
                     THEN Null
                     ELSE generateExampleFromSchema(Node(openApiSpec, requestBodySchema'),
                                                    openApiSpec, 1))
    /\ UNCHANGED <<storeVars, securityVars, requestBodySchemaDisplay, configVars, testerVars>>

NextReference == ResolveReference \/ ResolveParameter \/ GetExampleFromRequestBody

SpecReference == InitReference /\ [][NextReference]_vars

\* the node a pointer designates in the document: the walk over the
\* document's own keys, null where a segment is missing
RECURSIVE Designated(_, _, _)
Designated(node, segments, spec) ==
    IF segments = <<>> THEN node
    ELSE IF IsObject(node) /\ HasOwnKey(node, Head(segments), spec)
    THEN Designated(GetKey(node, Head(segments), spec), Tail(segments), spec)
    ELSE Null

\* C13: resolveReference returns null when a segment of the pointer is
\* missing from the document or the value reached cannot be traversed, and
\* the designated node otherwise; it leaves the document as it was.
C13_ReferenceMiss ==
    [][referent' # referent =>
            /\ referent'.v = Designated([t |-> "doc"], Tail(pointer), openApiSpec)
            /\ openApiSpec' = openApiSpec]_vars

\* C14: a chain of references ends at the same terminal node however many
\* pointers it has: the parameter resolved is the terminal parameter, and the
\* request body's schema and example are those of the terminal request body.
C14_ChainsReachTerminal ==
    /\ parameter.called => parameter.v = TerminalParameter
    /\ exampleRequestBody.called =>
            /\ requestBodySchema # 0
            /\ exampleRequestBody.v = Str("string")


\* ------------------------------------------------------ endpoint listing
\* The characters of the strings the listing compares.
Chars(s) ==
    CASE s = "/items" -> <<"/", "i", "t", "e", "m", "s">>
      [] s = "/items/" -> <<"/", "i", "t", "e", "m", "s", "/">>
      [] s = "/users" -> <<"/", "u", "s", "e", "r", "s">>
      [] s = "/Users" -> <<"/", "U", "s", "e", "r", "s">>
      [] s = "{id}" -> <<"{", "i", "d", "}">>
      [] s = "all" -> <<"a", "l", "l">>
      [] s = "GET" -> <<"G", "E", "T">>
      [] s = "POST" -> <<"P", "O", "S", "T">>
      [] s = "PUT" -> <<"P", "U", "T">>
      [] s = "PATCH" -> <<"P", "A", "T", "C", "H">>
      [] s = "DELETE" -> <<"D", "E", "L", "E", "T", "E">>

\* the characters of a string kept as tokens
RECURSIVE Join(_)
Join(tokens) == IF tokens = <<>> THEN <<>> ELSE Chars(Head(tokens)) \o Join(Tail(tokens))

LowerCase == <<"a", "b", "c", "d", "e", "f", "g", "h", "i", "j", "k", "l", "m",
               "n", "o", "p", "q", "r", "s", "t", "u", "v", "w", "x", "y", "z">>
UpperCase == <<"A", "B", "C", "D", "E", "F", "G", "H", "I", "J", "K", "L", "M",
               "N", "O", "P", "Q", "R", "S", "T", "U", "V", "W", "X", "Y", "Z">>
\* punctuation in the order of the root collation
Punctuation == <<"{", "}", "/">>

IndexIn(s, c) == IF \E i \in DOMAIN s : s[i] = c THEN CHOOSE i \in DOMAIN s : s[i] = c ELSE 0

\* the UTF-16 code unit of a character
CodeUnit(c) ==
    IF IndexIn(LowerCase, c) # 0 THEN 96 + IndexIn(LowerCase, c)
    ELSE IF IndexIn(UpperCase, c) # 0 THEN 64 + IndexIn(UpperCase, c)
    ELSE CASE c = "/" -> 47 [] c = "{" -> 123 [] c = "}" -> 125

\* the collation weights of a character: punctuation sorts before letters, a
\* letter has the primary weight of its place in the alphabet in either
\* case, and the lower-case letter comes first among equals
PrimaryWeight(c) ==
    IF IndexIn(Punctuation, c) # 0 THEN IndexIn(Punctuation, c)
    ELSE Len(Punctuation) + IndexIn(LowerCase, c) + IndexIn(UpperCase, c)

TertiaryWeight(c) == IF IndexIn(UpperCase, c) # 0 THEN 1 ELSE 0

\* the order of two sequences of weights: -1, 0 or 1
CompareWeights(x, y) ==
    LET differ == {i \in DOMAIN x \cap DOMAIN y : x[i] # y[i]}
    IN IF differ = {}
       THEN (IF Len(x) < Len(y) THEN -1 ELSE IF Len(x) > Len(y) THEN 1 ELSE 0)
       ELSE LET i == CHOOSE k \in differ : \A l \in differ : k <= l
            IN IF x[i] < y[i] THEN -1 ELSE 1

\* a.localeCompare(b), on the characters of a and b
localeCompare(a, b) ==
    LET primary == CompareWeights([i \in DOMAIN a |-> PrimaryWeight(a[i])],
                                  [i \in DOMAIN b |-> PrimaryWeight(b[i])])
    IN IF primary # 0 THEN primary
       ELSE CompareWeights([i \in DOMAIN a |-> TertiaryWeight(a[i])],
                           [i \in DOMAIN b |-> TertiaryWeight(b[i])])

\* the comparison by code units, character by character
CompareCodeUnits(a, b) ==
    CompareWeights([i \in DOMAIN a |-> CodeUnit(a[i])], [i \in DOMAIN b |-> CodeUnit(b[i])])

\* the inner loop: for (const method of ['get', 'post', 'put', 'patch', 'delete'])
RECURSIVE CollectMethods(_, _, _)
CollectMethods(path, pathItem, methods) ==
    IF methods = <<>> THEN <<>>
    ELSE LET found == Lookup(pathItem, Head(methods))
         IN (IF found # <<>> /\ found[1] # Null
             THEN <<[path |-> path, method |-> toUpperCase(Head(methods)), operation |-> found[1]]>>
             ELSE <<>>)
            \o CollectMethods(path, pathItem, Tail(methods))

\* the outer loop: for (const [path, pathItem] of Object.entries(paths))
RECURSIVE CollectEndpoints(_)
CollectEndpoints(paths) ==
    IF paths = <<>> THEN <<>>
    ELSE CollectMethods(Head(paths).k, Head(paths).v, <<"get", "post", "put", "patch", "delete">>)
         \o CollectEndpoints(Tail(paths))

\* the comparator handed to sort
CompareEndpoints(a, b) ==
    IF a.path # b.path THEN localeCompare(Join(a.path), Join(b.path))
    ELSE localeCompare(Chars(a.method), Chars(b.method))

\* Array.prototype.sort is stable: an element goes before the first one it
\* compares less than
RECURSIVE InsertEndpoint(_, _)
InsertEndpoint(sorted, x) ==
    IF sorted = <<>> THEN <<x>>
    ELSE IF CompareEndpoints(x, Head(sorted)) < 0 THEN <<x>> \o sorted
    ELSE <<Head(sorted)>> \o InsertEndpoint(Tail(sorted), x)

RECURSIVE SortEndpoints(_, _)
SortEndpoints(result, sorted) ==
    IF result = <<>> THEN sorted
    ELSE SortEndpoints(Tail(result), InsertEndpoint(sorted, Head(result)))

\* a variant that returns the result as collected
endpoints_Unsorted ==
    IF openApiSpec = Null THEN <<>>
    ELSE CollectEndpoints(openApiSpec.paths)

\* openapi.ts endpoints (computed)
endpoints ==
    IF openApiSpec = Null THEN <<>>
    ELSE SortEndpoints(CollectEndpoints(openApiSpec.paths), <<>>)

\* ---------------------------------------------- inputs: endpoint listing
MaxPaths == 2
MaxReads == 2

ListedPaths == {<<"/items">>, <<"/users">>, <<"/Users">>, <<"/items/", "{id}">>, <<"/items/", "all">>}

\* path items, their keys in some insertion order
ListedOperation == Operation(NoSecurity, <<>>, Null)
PathItems ==
    {<<Prop("get", ListedOperation)>>,
     <<Prop("post", ListedOperation), Prop("get", ListedOperation)>>,
     <<Prop("delete", ListedOperation), Prop("put", ListedOperation),
       Prop("patch", ListedOperation)>>}

EndpointDocuments ==
    {Null} \cup
    UNION {{Document([i \in DOMAIN paths |-> Prop(paths[i], items[i])],
                     NoSecurity, NoSchemes, <<>>, <<>>) :
                items \in [DOMAIN paths -> PathItems]} :
            paths \in {p \in SeqsUpTo(ListedPaths, MaxPaths) : IsInjective(p)}}

InitEndpoints ==
    /\ openApiSpec \in EndpointDocuments
    /\ loading = FALSE
    /\ error = Null
    /\ operation = Null
    /\ available = NotCalled
    /\ IdleResolver
    /\ IdleSchema
    /\ IdleConfig
    /\ IdleTester

\* a component reads endpoints.value
ReadEndpoints ==
    /\ Len(listed) < MaxReads
    /\ listed' = Append(listed, endpoints)
    /\ UNCHANGED <<storeVars, operation, available, pointer, referent, parameter,
                   copied, serverVars, schemaVars, configVars, testerVars>>

NextEndpoints == ReadEndpoints

SpecEndpoints == InitEndpoints /\ [][NextEndpoints]_vars

\* the operations of the document, as the listing collects them
Operations == IF openApiSpec = Null THEN <<>> ELSE CollectEndpoints(openApiSpec.paths)

\* every read lists the document's operations, each once, and reads agree
ListsOperations ==
    \A k \in DOMAIN listed :
        /\ listed[k] = listed[1]
        /\ Len(listed[k]) = Len(Operations)
        /\ SeqToSet(listed[k]) = SeqToSet(Operations)

InCollationOrder(a, b) ==
    \/ localeCompare(Join(a.path), Join(b.path)) < 0
    \/ a.path = b.path /\ localeCompare(Chars(a.method), Chars(b.method)) < 0

InCodeUnitOrder(a, b) ==
    \/ CompareCodeUnits(Join(a.path), Join(b.path)) < 0
    \/ a.path = b.path /\ CompareCodeUnits(Chars(a.method), Chars(b.method)) < 0

\* the listing of /items (GET, POST) and /users (GET)
ExampleListing ==
    <<[path |-> <<"/items">>, method |-> "GET", operation |-> ListedOperation],
      [path |-> <<"/items">>, method |-> "POST", operation |-> ListedOperation],
      [path |-> <<"/users">>, method |-> "GET", operation |-> ListedOperation]>>

IsExample ==
    /\ openApiSpec # Null
    /\ SeqToSet(Operations) = SeqToSet(ExampleListing)

MaxHistorySends == 2

InitHistory ==
    /\ InitSend
    /\ openApiSpec = ClerkDocument
    /\ clerk = "signedOut"

NextHistory ==
    \/ \E e \in TesterEndpoints : SelectEndpoint(e[1], e[2])
    \/ Deselect
    \/ SetRequestBody(Text("{invalid"))
    \/ calls < MaxHistorySends /\ SendRequest
    \/ FetchResolves(Response(200, "application/json"))
    \/ \E message \in RequestFailures : FetchRejects(message)
    \/ BodyRead
    \/ \E message \in BodyFailures : BodyFails(message)
    \/ OrphanFetchResolves(Response(200, "application/json"))
    \/ OrphanBodyRead
    \/ \E message \in RequestFailures : OrphanFails(message)
    \/ ClearCurrentEndpointHistory
    \/ ClearAllHistory

SpecHistory == InitHistory /\ [][NextHistory]_vars

\* the history is ordered newest-first: ids are given out as requests are
\* dispatched
NewestFirst ==
    \A i, j \in DOMAIN requestHistory :
        i < j => requestHistory[i].id >= requestHistory[j].id

\* `sub` is a subsequence of `s`, kept in order
IsFilterOf(sub, s) ==
    \E f \in [DOMAIN sub -> DOMAIN s] :
        /\ \A i \in DOMAIN sub : sub[i] = s[f[i]]
        /\ \A i, j \in DOMAIN sub : i < j => f[i] < f[j]
        /\ \A k \in DOMAIN s :
              (s[k].path = selectedPath /\ s[k].method = selectedMethod)
                  => \E i \in DOMAIN sub : f[i] = k

\* C15: after any dispatches and history clears, requestHistory is ordered
\* newest-first, and filteredRequestHistory is the subsequence of it for the
\* selected endpoint, empty when no endpoint is selected.
C15_HistoryOrder ==
    /\ NewestFirst
    /\ IsFilterOf(filteredRequestHistory, requestHistory)
    /\ \A i \in DOMAIN filteredRequestHistory :
          /\ filteredRequestHistory[i].path = selectedPath
          /\ filteredRequestHistory[i].method = selectedMethod
    /\ selectedPath = <<>> => filteredRequestHistory = <<>>


\* C16: an entry of requestHistory is never changed: after every step, each
\* entry whose id was in the history before is one of the entries that were
\* there, field for field; steps only add whole entries or remove them.
C16_EntriesUnchanged ==
    [][\A i \in DOMAIN requestHistory' :
            (\E j \in DOMAIN requestHistory : requestHistory[j].id = requestHistory'[i].id)
                => \E j \in DOMAIN requestHistory : requestHistory[j] = requestHistory'[i]]_vars

C16_Witness ==
    \E i, j \in DOMAIN requestHistory :
        /\ i < j
        /\ requestHistory[i].id = 2 /\ requestHistory[i].responseError # Null
        /\ requestHistory[j].id = 1 /\ requestHistory[j].response # Null
        /\ requestHistory[i].path = requestHistory[j].path
        /\ requestHistory[i].method # requestHistory[j].method


\* ------------------------------------------------ copying a request as curl
\* one element of `parts`: 'curl', `-X ${method}`, `-H "${key}: ${value}"`,
\* `-d '${body}'` or `"${url}"`, kept as its flag and what follows it
Part(flag, arg) == [flag |-> flag, arg |-> arg]

\* value.replace(/"/g, '\\"')
EscapeDoubleQuotes(value) ==
    CASE value = "k\"1" -> "k\\\"1"
      [] OTHER -> value

\* JSON.stringify(value, null, 2)
JSONStringify(value) ==
    CASE value = Num("0") -> "0"
      [] value = Bool("false") -> "false"
      [] value = Obj(<<>>) -> "{}"
      [] value = Obj(<<Prop("name", Str("x"))>>) -> "{\n  \"name\": \"x\"\n}"
      [] OTHER -> "null"

\* bodyStr.replace(/'/g, "'\\''").replace(/\n/g, '\\n')
EscapeBody(bodyStr) ==
    CASE bodyStr = "it's" -> "it'\\''s"
      [] bodyStr = "{\n  \"name\": \"x\"\n}" -> "{\\n  \"name\": \"x\"\\n}"
      [] OTHER -> bodyStr

\* what an `if (value)` takes as false among the values a body is recorded as
IsFalsy(value) == value \in {Null, Undefined, Bool("false"), Num("0"), Str("")}

\* typeof item.requestBody === 'string' ? item.requestBody : JSON.stringify(...)
BodyStr(value) == IF value.t = "str" THEN value.v ELSE JSONStringify(value)

\* formatAsCurl(item): the parts before they are joined by ' \\\n  '
formatAsCurl(item) ==
    <<Part("curl", "")>>
    \o (IF item.method # "GET" THEN <<Part("-X", item.method)>> ELSE <<>>)
    \o [i \in DOMAIN item.headers |->
            Part("-H", Prop(item.headers[i].k, EscapeDoubleQuotes(item.headers[i].v)))]
    \o (IF item.method \in BodyMethods /\ ~IsFalsy(item.requestBody)
        THEN <<Part("-d", EscapeBody(BodyStr(item.requestBody)))>>
        ELSE <<>>)
    \o <<Part("url", item.url)>>

\* the methods an endpoint of the list can have
EndpointMethods == {"GET", "POST", "PUT", "PATCH", "DELETE"}

\* what historyItem.requestBody can be: null for a blank body, the text for
\* one that is no JSON, and the parsed value otherwise
RecordedBodies ==
    {Null, Str("{invalid"), Str("it's"), Str(""), Num("0"), Bool("false"),
     Obj(<<>>), Obj(<<Prop("name", Str("x"))>>)}

\* what historyItem.headers can be: empty until the request is prepared, then
\* the content type and at most one credential
RecordedHeaders ==
    {<<>>,
     <<Prop("Content-Type", "application/json")>>,
     <<Prop("Content-Type", "application/json"), Prop("X-API-Key", "k\"1")>>,
     <<Prop("Content-Type", "application/json"), Prop("Authorization", "Bearer tok")>>}

\* the history entries formatAsCurl is given
RecordedItems ==
    {[HistoryItem(1, method, <<"/items">>, body, <<>>, <<>>, "")
        EXCEPT !.url = Url(<<"/items">>, <<>>), !.headers = headers, !.status = 200] :
        method \in EndpointMethods, body \in RecordedBodies, headers \in RecordedHeaders}

\* a history of one entry is on display, nothing copied yet
InitCurl ==
    /\ openApiSpec = ClerkDocument
    /\ loading = FALSE
    /\ error = Null
    /\ operation = Null
    /\ available = NotCalled
    /\ IdleResolver
    /\ IdleSchema
    /\ IdleConfig
    /\ requestHistory \in {<<item>> : item \in RecordedItems}
    /\ selectedPath = <<"/items">>
    /\ selectedMethod = requestHistory[1].method
    /\ selectedAuthScheme = ""
    /\ endpointFormState = <<>>
    /\ requestQuery = <<>>
    /\ requestUrlParams = <<>>
    /\ requestBody = Text("")
    /\ response = Null
    /\ responseError = Null
    /\ sendingRequest = FALSE
    /\ authCredentials = <<>>
    /\ menuAuthCredentials = <<>>
    /\ clerk = "unavailable"
    /\ call = NoCall
    /\ orphan = NoOrphan
    /\ calls = 0
    /\ fetched = <<>>

\* copyCurlToClipboard(item), for an entry of the history on display
CopyCurlToClipboard ==
    /\ \E i \in DOMAIN filteredRequestHistory :
          copied' = Returned(formatAsCurl(filteredRequestHistory[i]))
    /\ UNCHANGED <<storeVars, operation, available, pointer, referent, parameter,
                   listed, serverVars, schemaVars, configVars, testerVars>>

NextCurl == CopyCurlToClipboard

SpecCurl == InitCurl /\ [][NextCurl]_vars

\* the parts of a command that carry the flag
WithFlag(parts, flag) ==
    LET HasFlag(part) == part.flag = flag
    IN SelectSeq(parts, HasFlag)

\* the command is the projection of the entry the claim describes, a body
\* being recorded when requestBody is not null
IsProjection(parts, item) ==
    /\ parts[1].flag = "curl"
    /\ WithFlag(parts, "-X") =
          IF item.method # "GET" THEN <<Part("-X", item.method)>> ELSE <<>>
    /\ WithFlag(parts, "-H") =
          [i \in DOMAIN item.headers |->
              Part("-H", Prop(item.headers[i].k, EscapeDoubleQuotes(item.headers[i].v)))]
    /\ Len(WithFlag(parts, "-d")) =
          IF item.method \in BodyMethods /\ item.requestBody # Null THEN 1 ELSE 0
    /\ parts[Len(parts)] = Part("url", item.url)

\* C17: the command copied for a history entry has -X exactly when the method
\* is not GET, one -H per recorded header with the double quotes of its value
\* escaped, a -d exactly when the method is POST, PUT or PATCH and a body is
\* recorded, and the URL last; and copying changes nothing but the clipboard.
C17_CurlProjection ==
    [][copied' # copied =>
          /\ \E i \in DOMAIN filteredRequestHistory :
                IsProjection(copied'.v, filteredRequestHistory[i])
          /\ UNCHANGED <<storeVars, operation, available, pointer, referent, parameter,
                         listed, serverVars, schemaVars, configVars, testerVars>>]_vars

\* ------------------------------------------- credentials and what is stored
\* the tester in use while service hosts are added, selected and removed:
\* the handlers that write localStorage, among those that handle credentials
CredentialDocument(scheme) ==
    Document(<<Prop(<<"/items">>, <<Prop("get", Operation(NoSecurity, <<>>, Null))>>),
               Prop(<<"/users">>, <<Prop("get", Operation(NoSecurity, <<>>, Null))>>)>>,
             NoSecurity, Schemes(<<[name |-> "auth", scheme |-> scheme]>>), <<>>, <<>>)

InitCredentials ==
    /\ openApiSpec \in {CredentialDocument(scheme) : scheme \in TesterSchemes}
    /\ clerk = "unavailable"
    /\ loading = FALSE
    /\ error = Null
    /\ operation = Null
    /\ available = NotCalled
    /\ IdleResolver
    /\ IdleSchema
    /\ isLoadingOpenApi = FALSE
    /\ serviceHosts = <<>>
    /\ selectedServiceHost = NoHost
    /\ localStorage = Storage(<<>>, NoHost)
    /\ envOpenApiSpecUrl = "env"
    /\ loads = <<[Load(TRUE, "env") EXCEPT !.phase = "done"]>>
    /\ selectedPath = <<>>
    /\ selectedMethod = ""
    /\ selectedAuthScheme = ""
    /\ requestHistory = <<>>
    /\ endpointFormState = <<>>
    /\ requestQuery = <<>>
    /\ requestUrlParams = <<>>
    /\ requestBody = Text("")
    /\ response = Null
    /\ responseError = Null
    /\ sendingRequest = FALSE
    /\ authCredentials = <<>>
    /\ menuAuthCredentials = <<>>
    /\ call = NoCall
    /\ orphan = NoOrphan
    /\ calls = 0
    /\ fetched = <<>>

NextCredentials ==
    \/ \E e \in TesterEndpoints : SelectEndpoint(e[1], e[2])
    \/ \E scheme \in OfferedSchemes \cup {""} : ToggleSelectedAuthScheme(scheme)
    \/ \E i \in DOMAIN securitySchemes :
          \E field \in CredentialFields(securitySchemes[i].scheme) :
             \E value \in CredentialValues(field) :
                UpdateAuthCredential(securitySchemes[i].name, field, value)
    \/ \E i \in DOMAIN securitySchemes : ClearAuthCredential(securitySchemes[i].name)
    \/ calls < MaxSends /\ SendRequest
    \/ FetchResolves(Response(200, "application/json"))
    \/ BodyRead
    \/ \E host \in {"h1"} : AddHost(host)
    \/ \E host \in {"h1"} : SelectHost(host)
    \/ \E host \in {"h1"} : RemoveHost(host)

SpecCredentials == InitCredentials /\ [][NextCredentials]_vars

\* every value a credential field can hold
Secrets ==
    UNION {CredentialValues(field) :
              field \in {"value", "username", "password", "token", "accessToken", "idToken"}}

\* the values an object kept as entries holds
ValuesOf(entries) == {entries[i].v : i \in DOMAIN entries}

\* C20: whatever credentials are edited, schemes selected, endpoints switched
\* and requests dispatched, localStorage holds its service hosts and the
\* selected host's id and no credential value, and every saved form state
\* holds the query, the URL parameters, the body text and the name of the
\* selected scheme, and no credential value.
C20_CredentialsNotStored ==
    /\ DOMAIN localStorage = {"hosts", "selectedId"}
    /\ localStorage.selectedId \notin Secrets
    /\ SeqToSet(localStorage.hosts) \cap Secrets = {}
    /\ \A key \in DOMAIN endpointFormState :
          LET saved == endpointFormState[key]
          IN /\ DOMAIN saved =
                   {"requestQuery", "requestUrlParams", "requestBody", "selectedAuthScheme"}
             /\ saved.selectedAuthScheme \in OfferedSchemes \cup {""}
             /\ saved.selectedAuthScheme \notin Secrets
             /\ ValuesOf(saved.requestQuery) \cap Secrets = {}
             /\ ValuesOf(saved.requestUrlParams) \cap Secrets = {}
             /\ saved.requestBody.text \notin Secrets

\* a credential has been typed, the scheme is selected and saved with one
\* endpoint's form, a second endpoint has its form saved too, a request has
\* gone out, and localStorage has been written
C20_Witness ==
    /\ menuAuthCredentials # <<>>
    /\ Cardinality(DOMAIN endpointFormState) = 2
    /\ \E key \in DOMAIN endpointFormState :
          endpointFormState[key].selectedAuthScheme = "auth"
    /\ fetched # <<>>
    /\ localStorage.hosts # <<>>

\* ------------------------------------------------ inputs: example synthesis
\* one schema object under every combination of the keys the synthesis
\* reads first: example, enum, type, format, default
LeafSchemas ==
    {[Schema EXCEPT !.type = type, !.example = example, !.enum = enum,
                    !.format = format, !.default = default] :
        type \in {"", "string", "integer", "boolean"},
        example \in {Undefined, Null, Str("ex")},
        enum \in {NoList, List(<<>>), List(<<Str("e1"), Str("e2")>>)},
        format \in StringFormats \cup {"", "hostname"},
        default \in {Undefined, Str("d")}}

LeafDocuments ==
    {Document(<<>>, NoSecurity, NoSchemes, <<>>, <<schema>>) : schema \in LeafSchemas}

\* the most members of an allOf
MaxMembers == 3

\* the schemas an allOf can name: node 2 gives {a: "1"}, node 3 gives
\* {a: "2", b: "1"}, node 4 a string, node 5 an array, node 6 null
MemberNodes ==
    <<ObjectOf(<<Prop("a", 7)>>),
      ObjectOf(<<Prop("a", 8), Prop("b", 7)>>),
      Typed("string"),
      ArrayOf(7),
      [Schema EXCEPT !.example = Null],
      [Typed("string") EXCEPT !.example = Str("1")],
      [Typed("string") EXCEPT !.example = Str("2")]>>

AllOfDocuments ==
    {Document(<<>>, NoSecurity, NoSchemes, <<>>,
              <<[Schema EXCEPT !.allOf = List(members), !.example = example]>>
                  \o MemberNodes) :
        members \in SeqsUpTo(2..6, MaxMembers), example \in {Undefined, Str("ex")}}

ExampleDocuments == LeafDocuments \cup AllOfDocuments

InitExample ==
    /\ openApiSpec \in ExampleDocuments
    /\ loading = FALSE
    /\ error = Null
    /\ operation = Null
    /\ available = NotCalled
    /\ IdleResolver
    /\ requestBodySchema = 1
    /\ exampleRequestBody = NotCalled
    /\ requestBodySchemaDisplay = NotCalled
    /\ IdleConfig
    /\ IdleTester

NextExample == GenerateExample

SpecExample == InitExample /\ [][NextExample]_vars

\* C21: for a schema that is no reference, an example is returned as it is,
\* whatever else the schema has; without one, a non-empty enum gives its first
\* value; and without either a string gives the literal of a recognised
\* format, else its default, else "string".
C21_ExamplePriority ==
    (exampleRequestBody.called /\ RootSchema.ref = <<>>) =>
        IF RootSchema.example # Undefined
        THEN exampleRequestBody.v = RootSchema.example
        ELSE IF RootSchema.enum.present /\ RootSchema.enum.list # <<>>
        THEN exampleRequestBody.v = RootSchema.enum.list[1]
        ELSE RootSchema.type = "string" =>
                IF RootSchema.format \in StringFormats
                THEN exampleRequestBody.v = FormatExample(RootSchema.format)
                ELSE IF RootSchema.default # Undefined
                THEN exampleRequestBody.v = RootSchema.default
                ELSE exampleRequestBody.v = Str("string")

\* a string with neither example nor enum, with a default and no recognised
\* format, has been given its default
C21_Witness ==
    /\ exampleRequestBody.called
    /\ RootSchema.type = "string"
    /\ RootSchema.example = Undefined
    /\ RootSchema.enum = List(<<>>)
    /\ RootSchema.format = "hostname"
    /\ RootSchema.default = Str("d")
    /\ exampleRequestBody.v = Str("d")

\* the examples of the members of the root's allOf, in declaration order
MemberExamples ==
    [i \in DOMAIN RootSchema.allOf.list |->
        generateExampleFromSchema(Node(openApiSpec, RootSchema.allOf.list[i]), openApiSpec, 2)]

\* the members whose example is a plain object, and those among them that
\* have the key
ObjectMembers == {i \in DOMAIN MemberExamples : MemberExamples[i].t = "obj"}
MembersWith(key) ==
    {i \in ObjectMembers : key \in SeqToSet(Keys(MemberExamples[i].v))}
LastOf(members) == CHOOSE i \in members : \A j \in members : j <= i

startsWith(path, char) == path # <<>> /\ Head(path) = char
endsWith(path, char) == path # <<>> /\ path[Len(path)] = char
LongerThanOne(path) == Len(path) > 1 \/ (Len(path) = 1 /\ path[1] # "/")

\* a variant that removes every trailing slash
validatePath_AllTrailing(path) ==
    IF path.t # "str" THEN Thrown("Path must be a string")
    ELSE LET slashed == IF startsWith(path.v, "/") THEN path.v ELSE <<"/">> \o path.v
             kept == {n \in 1..Len(slashed) : n = 1 \/ slashed[n] # "/"}
             last == CHOOSE n \in kept : \A m \in kept : m <= n
         IN Str(SubSeq(slashed, 1, last))

\* validatePath(path)
validatePath(path) ==
    IF path.t # "str" THEN Thrown("Path must be a string")
    ELSE LET slashed == IF startsWith(path.v, "/") THEN path.v ELSE <<"/">> \o path.v
         IN IF LongerThanOne(slashed) /\ endsWith(slashed, "/")
            THEN Str(SubSeq(slashed, 1, Len(slashed) - 1))
            ELSE Str(slashed)

\* the longest path validated
MaxPathLen == 4

\* what validatePath is given: every path of up to MaxPathLen elements, and
\* the values that are no string
PathChars == {"/", "api", "v1"}
PathArgs ==
    {Str(p) : p \in SeqsUpTo(PathChars, MaxPathLen)} \cup {Num("123"), Null, Undefined}

InitPath ==
    /\ openApiSpec = Null
    /\ loading = FALSE
    /\ error = Null
    /\ operation = Null
    /\ available = NotCalled
    /\ pointer = <<>>
    /\ referent = NotCalled
    /\ parameter = NotCalled
    /\ listed = <<>>
    /\ copied = NotCalled
    /\ pathArg \in PathArgs
    /\ validated = NotCalled
    /\ setupArgs = NoSetup
    /\ nestApp = NoApp
    /\ IdleSchema
    /\ IdleConfig
    /\ IdleTester

\* a caller validates the path
ValidatePath ==
    /\ ~validated.called
    /\ validated' = Returned(validatePath(pathArg))
    /\ UNCHANGED <<storeVars, operation, available, pointer, referent, parameter, listed,
                   copied, pathArg, setupArgs, nestApp, schemaVars, configVars, testerVars>>

NextPath == ValidatePath

SpecPath == InitPath /\ [][NextPath]_vars

\* a path begins with "/" and ends with one only if it is "/"
IsNormalPath(path) == startsWith(path, "/") /\ (endsWith(path, "/") => path = <<"/">>)

\* C23: validatePath gives every string a path that begins with "/" and does
\* not end with "/" unless it is "/", which validatePath leaves as it is; for
\* a value that is no string it throws 'Path must be a string'.
C23_PathNormalised ==
    validated.called =>
        IF pathArg.t = "str"
        THEN /\ validated.v.t = "str"
             /\ IsNormalPath(validated.v.v)
             /\ validatePath(validated.v) = validated.v
        ELSE validated.v = Thrown("Path must be a string")

\* ---------------------------------------------- server: OpenApiStudioModule
\* OpenApiStudioOptions (customStaticPath left out): a key that is not given
\* is undefined
Options(useGlobalPrefix, jsonDocumentUrl, configJsonPath, serviceHost, clerkPublishableKey, specUrl, defaultServiceHostToWindowOrigin) ==
    [useGlobalPrefix |-> useGlobalPrefix, jsonDocumentUrl |-> jsonDocumentUrl,
     configJsonPath |-> configJsonPath, serviceHost |-> serviceHost,
     clerkPublishableKey |-> clerkPublishableKey, openApiSpecUrl |-> specUrl,
     defaultServiceHostToWindowOrigin |-> defaultServiceHostToWindowOrigin]

\* getGlobalPrefix(app): config.getGlobalPrefix() || ''
getGlobalPrefix(app) == app.globalPrefix

\* validateGlobalPrefix(globalPrefix)
validateGlobalPrefix(globalPrefix) ==
    IF globalPrefix = <<>> THEN FALSE ELSE startsWith(globalPrefix, "/")

\* options?.useGlobalPrefix !== false && validateGlobalPrefix(globalPrefix)
UsesGlobalPrefix(app, options) ==
    options.useGlobalPrefix # Bool("false") /\ validateGlobalPrefix(getGlobalPrefix(app))

\* finalPath of setup
FinalPath(path, app, options) ==
    validatePath(IF UsesGlobalPrefix(app, options)
                 THEN Str(getGlobalPrefix(app) \o validatePath(Str(path)).v)
                 ELSE Str(path)).v

\* validatedGlobalPrefix of setup
ValidatedGlobalPrefix(app, options) ==
    IF UsesGlobalPrefix(app, options) THEN validatePath(Str(getGlobalPrefix(app))).v ELSE <<>>

\* jsonDocumentUrl and configJsonPath of setup: the option if it is given and
\* not empty, else the default, behind the validated prefix
PrefixedOr(app, options, given, default) ==
    IF given # Undefined /\ given.v # <<>>
    THEN ValidatedGlobalPrefix(app, options) \o validatePath(given).v
    ELSE ValidatedGlobalPrefix(app, options) \o default

\* httpAdapter.get(path, handler): the route and what its handler sends
Route(path, handler, body) == [path |-> path, handler |-> handler, body |-> body]

\* the config object of serveConfigJson's handler, as JSON.parse reads what
\* it sent
ServedConfig(options) ==
    Obj((IF ~IsFalsy(options.serviceHost)
         THEN <<Prop("serviceHost", options.serviceHost)>> ELSE <<>>)
        \o (IF ~IsFalsy(options.clerkPublishableKey)
            THEN <<Prop("clerkKey", options.clerkPublishableKey)>> ELSE <<>>)
        \o (IF ~IsFalsy(options.openApiSpecUrl)
            THEN <<Prop("openApiSpecUrl", options.openApiSpecUrl)>> ELSE <<>>))

\* serveIndexHtml(finalPath, httpAdapter): nothing if index.html cannot be
\* read, else finalPath and validatePath(`${finalPath}/`)
serveIndexHtml(finalPath, app) ==
    IF ~app.indexHtml THEN <<>>
    ELSE <<Route(finalPath, "index", Null),
           Route(validatePath(Str(finalPath \o <<"/">>)).v, "index", Null)>>

\* OpenApiStudioModule.setup(path, app, document, options)
Setup ==
    /\ nestApp.staticAssets = <<>>
    /\ setupArgs # NoSetup
    /\ LET path == setupArgs.path
           options == setupArgs.options
           finalPath == FinalPath(path, nestApp, options)
           jsonDocumentUrl ==
               PrefixedOr(nestApp, options, options.jsonDocumentUrl, <<"/", "openapi.json">>)
           configJsonPath ==
               PrefixedOr(nestApp, options, options.configJsonPath,
                          <<"/", "openapi-studio-config.json">>)
       IN nestApp' =
            [nestApp EXCEPT
                !.staticAssets = <<finalPath>>,
                !.routes =
                    <<Route(validatePath(Str(configJsonPath)).v, "config", ServedConfig(options)),
                      Route(validatePath(Str(jsonDocumentUrl)).v, "document", Null)>>
                    \o serveIndexHtml(finalPath, nestApp)]
    /\ UNCHANGED <<storeVars, operation, available, pointer, referent, parameter, listed,
                   copied, pathArg, validated, setupArgs, schemaVars, configVars, testerVars>>

\* ------------------------------------------------------ inputs: the server
GlobalPrefixes ==
    {<<>>, <<"/">>, <<"/", "api">>, <<"/", "api", "/">>, <<"api">>}
SetupPaths == {<<"/", "docs">>, <<"docs", "/">>, <<"/">>}

OptionSets ==
    {Options(useGlobalPrefix, jsonDocumentUrl, configJsonPath, serviceHost,
             clerkPublishableKey, specUrl, defaultServiceHostToWindowOrigin) :
        useGlobalPrefix \in {Undefined, Bool("true"), Bool("false")},
        jsonDocumentUrl \in {Undefined, Str(<<"/", "spec.json">>)},
        configJsonPath \in {Undefined, Str(<<"config.json">>)},
        serviceHost \in {Undefined, Str("https://api.example.com")},
        clerkPublishableKey \in {Undefined, Str("pk_test_123")},
        specUrl \in {Undefined, Str("https://api.example.com/spec.json")},
        defaultServiceHostToWindowOrigin \in {Undefined, Bool("false")}}

InitSetup ==
    /\ openApiSpec = Null
    /\ loading = FALSE
    /\ error = Null
    /\ operation = Null
    /\ available = NotCalled
    /\ pointer = <<>>
    /\ referent = NotCalled
    /\ parameter = NotCalled
    /\ listed = <<>>
    /\ copied = NotCalled
    /\ pathArg = Undefined
    /\ validated = NotCalled
    /\ setupArgs \in [path : SetupPaths, options : OptionSets]
    /\ nestApp \in {[NoApp EXCEPT !.globalPrefix = prefix, !.indexHtml = readable] :
                       prefix \in GlobalPrefixes, readable \in BOOLEAN}
    /\ IdleSchema
    /\ IdleConfig
    /\ IdleTester

NextSetup == Setup

SpecSetup == InitSetup /\ [][NextSetup]_vars

\* the paths a handler is mounted at
RoutePaths(handler) ==
    {nestApp.routes[i].path : i \in {j \in DOMAIN nestApp.routes : nestApp.routes[j].handler = handler}}

\* a path with every run of slashes made one and no slash at its end
RECURSIVE Collapse(_)
Collapse(path) ==
    IF path = <<>> THEN <<>>
    ELSE IF Head(path) = "/" /\ (Len(path) = 1 \/ path[2] = "/") THEN Collapse(Tail(path))
    ELSE <<Head(path)>> \o Collapse(Tail(path))
Normal(path) == IF Collapse(path) = <<>> THEN <<"/">> ELSE Collapse(path)

\* globalPrefix + path, read as the two texts one after the other ("written")
\* or as the path under the prefix ("joined")
PrefixPlus(reading, prefix, path) ==
    IF reading = "written" THEN validatePath(Str(prefix \o validatePath(Str(path)).v)).v
    ELSE Normal(prefix \o <<"/">> \o path)

\* where setup is to mount `path`
MountPoint(reading, path) ==
    IF /\ startsWith(nestApp.globalPrefix, "/")
       /\ setupArgs.options.useGlobalPrefix # Bool("false")
    THEN PrefixPlus(reading, nestApp.globalPrefix, path)
    ELSE validatePath(Str(path)).v

GivenOr(option, default) == IF option = Undefined THEN default ELSE option.v

MountedBy(reading) ==
    /\ SeqToSet(nestApp.staticAssets) = {MountPoint(reading, setupArgs.path)}
    /\ nestApp.indexHtml => RoutePaths("index") = {MountPoint(reading, setupArgs.path)}
    /\ RoutePaths("document") =
          {MountPoint(reading, GivenOr(setupArgs.options.jsonDocumentUrl, <<"/", "openapi.json">>))}
    /\ RoutePaths("config") =
          {MountPoint(reading, GivenOr(setupArgs.options.configJsonPath,
                                       <<"/", "openapi-studio-config.json">>))}

\* C24: after setup the static assets, the index page (where index.html can
\* be read), the document and the configuration are mounted at globalPrefix +
\* their paths if the prefix starts with "/" and useGlobalPrefix is not false,
\* and at their paths alone otherwise, under one reading of globalPrefix + path.
C24_MountedUnderPrefix ==
    nestApp.staticAssets # <<>> => (MountedBy("written") \/ MountedBy("joined"))

\* the entries of the configuration the claim describes
ExpectedConfig ==
    {Prop("defaultServiceHostToWindowOrigin",
          IF setupArgs.options.defaultServiceHostToWindowOrigin = Bool("false")
          THEN Bool("false") ELSE Bool("true")),
     Prop("serviceHost",
          IF setupArgs.options.serviceHost = Undefined
          THEN Str("/") ELSE setupArgs.options.serviceHost)}
    \cup (IF setupArgs.options.clerkPublishableKey = Undefined THEN {}
          ELSE {Prop("clerkPublishableKey", setupArgs.options.clerkPublishableKey)})
    \cup (IF setupArgs.options.openApiSpecUrl = Undefined THEN {}
          ELSE {Prop("openApiSpecUrl", setupArgs.options.openApiSpecUrl)})

\* C25: the configuration served has defaultServiceHostToWindowOrigin (true
\* unless the option is false), serviceHost ('/' unless the option is given),
\* and clerkPublishableKey and openApiSpecUrl as the options give them.
C25_ConfigServed ==
    \A i \in DOMAIN nestApp.routes :
        nestApp.routes[i].handler = "config" =>
            SeqToSet(nestApp.routes[i].body.v) = ExpectedConfig
====
